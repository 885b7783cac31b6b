---------------------------- MODULE ConsulSetup ----------------------------
(***************************************************************************)
(* The phases of consul_setup on the nodes of a cluster.  config points    *)
(* the systemd unit at a configuration directory and writes consul.hcl     *)
(* there from the roles of the nodes, init starts the service, cleanup     *)
(* puts the unit and the default file back.  A command in the middle of a  *)
(* phase may fail, which raises, and the phase may be killed.              *)
(***************************************************************************)
EXTENDS Naturals, FiniteSets

CONSTANTS
  Node,
  Servers,      \* Servers[c]: the nodes with the role consul_server in configuration c
  Path,         \* Path[c]: its config_path
  Default,      \* /etc/consul.d
  MaxPhases,
  None

VARIABLES
  unit,         \* unit[n]: the directory and the user of consul.service
  hcl,          \* hcl[n][d]: consul.hcl in directory d: None, Empty, or its content
  owner,        \* owner[n][d]: the owner of directory d
  running,      \* running[n]: the content the service was started with, or None
  call,         \* call[n]: the next step of the phase under way, and its configuration
  done,         \* done[n]: the phase that completed last, with its configuration
  used,         \* used[n]: configurations that config began with since the last cleanup
  phases

vars == <<unit, hcl, owner, running, call, done, used, phases>>
files == <<unit, hcl, owner>>

Confs == DOMAIN Path
Dirs == {Path[c] : c \in Confs} \cup {Default}
Empty == [kind |-> "empty"]
Torn == [dir |-> None, user |-> None]
DefaultFile == [kind |-> "default"]
Idle == [step |-> "idle", conf |-> None]
Nothing == [phase |-> "none", conf |-> None]

Init ==
  /\ unit = [n \in Node |-> [dir |-> Default, user |-> "consul"]]
  /\ hcl = [n \in Node |-> [d \in Dirs |-> IF d = Default THEN DefaultFile ELSE None]]
  /\ owner = [n \in Node |-> [d \in Dirs |-> IF d = Default THEN "consul" ELSE None]]
  /\ running = [n \in Node |-> None]
  /\ call = [n \in Node |-> Idle]
  /\ done = [n \in Node |-> Nothing]
  /\ used = [n \in Node |-> {}]
  /\ phases = 0

At(n, step) == call[n].step = step
Goto(n, step) == call' = [call EXCEPT ![n].step = step]
PathOf(n) == Path[call[n].conf]

Enter(n, step, c) ==
  /\ call[n] = Idle /\ phases < MaxPhases
  /\ phases' = phases + 1
  /\ call' = [call EXCEPT ![n] = [step |-> step, conf |-> c]]
  /\ done' = [done EXCEPT ![n] = Nothing]

Complete(n, phase) ==
  /\ done' = [done EXCEPT ![n] = [phase |-> phase, conf |-> call[n].conf]]
  /\ call' = [call EXCEPT ![n] = Idle]

-----------------------------------------------------------------------------
(* config().                                                               *)

\* validate(): a key that is missing or a node that cannot be reached raises
\* before anything is changed.
ValidateFails(n) ==
  /\ call[n] = Idle /\ phases < MaxPhases
  /\ phases' = phases + 1
  /\ UNCHANGED <<files, running, call, done, used>>

\* The directories are made first.
Config(n, c) ==
  /\ Enter(n, "unit", c)
  /\ owner' = [owner EXCEPT ![n][Path[c]] = IF @ = None THEN "root" ELSE @]
  /\ used' = [used EXCEPT ![n] = @ \cup {c}]
  /\ UNCHANGED <<unit, hcl, running>>

\* The unit file is read, truncated and written again.  In one that an earlier
\* phase left empty there is nothing to substitute.
TruncateUnit(n) ==
  /\ call[n].step \in {"unit", "unitDefault"}
  /\ unit' = [unit EXCEPT ![n] = Torn]
  /\ Goto(n, CASE unit[n] # Torn -> IF At(n, "unit") THEN "unitWrite" ELSE "defaultWrite"
               [] unit[n] = Torn -> IF At(n, "unit") THEN "verifyFails" ELSE "remove")
  /\ UNCHANGED <<hcl, owner, running, done, used, phases>>

EditUnit(n) ==
  /\ At(n, "unitWrite")
  /\ unit' = [unit EXCEPT ![n] = [dir |-> PathOf(n), user |-> "root"]]
  /\ Goto(n, "open")
  /\ UNCHANGED <<hcl, owner, running, done, used, phases>>

\* consul.hcl is opened for writing, after the unit was verified and reloaded.
OpenHcl(n) ==
  /\ At(n, "open")
  /\ hcl' = [hcl EXCEPT ![n][PathOf(n)] = Empty]
  /\ Goto(n, "write")
  /\ UNCHANGED <<unit, owner, running, done, used, phases>>

\* The template filled in: is this node a server, how many are there, and
\* which others to join.
Content(n, c) ==
  [kind |-> "written", server |-> n \in Servers[c],
   expect |-> Cardinality(Servers[c]), join |-> Servers[c] \ {n}]

WriteHcl(n) ==
  /\ At(n, "write")
  /\ hcl' = [hcl EXCEPT ![n][PathOf(n)] = Content(n, call[n].conf)]
  /\ Goto(n, "chown")
  /\ UNCHANGED <<unit, owner, running, done, used, phases>>

\* consul validate, then the ownership of the directories.
ChownConfig(n) ==
  /\ At(n, "chown")
  /\ owner' = [owner EXCEPT ![n][PathOf(n)] = "root"]
  /\ Complete(n, "config")
  /\ UNCHANGED <<unit, hcl, running, used, phases>>

-----------------------------------------------------------------------------
\* init(): up to three attempts to start the service, which systemd does only
\* if the file is not empty.
Start(n) ==
  /\ call[n] = Idle
  /\ unit[n] # Torn
  /\ LET file == hcl[n][unit[n].dir] IN
     file \notin {None, Empty} /\ running' = [running EXCEPT ![n] = file]
  /\ UNCHANGED <<files, call, done, used, phases>>

-----------------------------------------------------------------------------
(* cleanup(): a service that does not stop is left running.                *)

Cleanup(n, c) ==
  /\ Enter(n, "unitDefault", c)
  /\ running' \in {running, [running EXCEPT ![n] = None]}
  /\ UNCHANGED <<files, used>>

DefaultUnit(n) ==
  /\ At(n, "defaultWrite")
  /\ unit' = [unit EXCEPT ![n] = [dir |-> Default, user |-> "consul"]]
  /\ Goto(n, "remove")
  /\ UNCHANGED <<hcl, owner, running, done, used, phases>>

\* rmtree() of the directory that the configuration names now.
RemoveConfig(n) ==
  /\ At(n, "remove")
  /\ hcl' = [hcl EXCEPT ![n][PathOf(n)] = None]
  /\ owner' = [owner EXCEPT ![n][PathOf(n)] = None]
  /\ Goto(n, "copy")
  /\ UNCHANGED <<unit, running, done, used, phases>>

CopyDefault(n) ==
  /\ At(n, "copy")
  /\ hcl' = [hcl EXCEPT ![n][Default] = DefaultFile]
  /\ owner' = [owner EXCEPT ![n][Default] = IF @ = None THEN "root" ELSE @]
  /\ Goto(n, "chownDefault")
  /\ UNCHANGED <<unit, running, done, used, phases>>

ChownTo(n, user) ==
  /\ At(n, "chownDefault")
  /\ owner' = [owner EXCEPT ![n][Default] = user]
  /\ used' = [used EXCEPT ![n] = {c \in @ : Path[c] # PathOf(n)}]
  /\ Complete(n, "cleanup")
  /\ UNCHANGED <<unit, hcl, running, phases>>

ChownAsConfig(n) == ChownTo(n, "root")
ChownDefault(n) == ChownTo(n, "consul")

\* A command fails and the phase raises, or it is killed.
Fail(n) ==
  /\ call[n] # Idle
  /\ call' = [call EXCEPT ![n] = Idle]
  /\ UNCHANGED <<files, running, done, used, phases>>

Next ==
  \E n \in Node :
    \/ \E c \in Confs : Config(n, c) \/ Cleanup(n, c)
    \/ ValidateFails(n) \/ TruncateUnit(n) \/ EditUnit(n) \/ OpenHcl(n) \/ WriteHcl(n) \/ ChownConfig(n)
    \/ Start(n)
    \/ DefaultUnit(n) \/ RemoveConfig(n) \/ CopyDefault(n) \/ ChownDefault(n)
    \/ Fail(n)

Spec == Init /\ [][Next]_vars

-----------------------------------------------------------------------------
(* Properties.                                                             *)

\* The nodes whose file, for configuration c, says that they are servers.
ServersFound(c) == {m \in Node : hcl[m][Path[c]].server}

Served(n) ==
  LET file == hcl[n][unit[n].dir]  c == done[n].conf IN
  /\ done[n].phase # "none" => owner[n][unit[n].dir] = unit[n].user
  /\ done[n].phase = "config" =>
       /\ unit[n].dir = Path[c] /\ file = Content(n, c)
       /\ (\A m \in Node : done[m] = done[n]) =>
            file.expect = Cardinality(ServersFound(c)) /\ file.join = ServersFound(c) \ {n}
  /\ done[n].phase = "cleanup" =>
       /\ unit[n].dir = Default /\ file = DefaultFile
       /\ \A d \in Dirs \ {Default} :
            hcl[n][d] # None => \E k \in used[n] : Path[k] = d

(* Whatever phases were cut short before, short of the rewriting of the    *)
(* unit: when config or cleanup has completed, the unit points at a file   *)
(* that is there, made for the configuration given (or the default one),   *)
(* in a directory of the user that runs it; the servers of a configuration *)
(* expect as many as there are and find every other one; and a cleanup     *)
(* leaves no file of a configuration, but of those whose directory it was  *)
(* not told of.                                                            *)
UnitServed == \A n \in {m \in Node : unit[m] # Torn} : Served(n)

-----------------------------------------------------------------------------
(* Why UnitServed holds: what every step of config and cleanup has behind  *)
(* it, as long as the unit is not torn.                                    *)

ConfigSteps == {"unit", "unitWrite", "verifyFails", "open", "write", "chown"}
CleanupSteps == {"unitDefault", "defaultWrite", "remove", "copy", "chownDefault"}
DefaultUnitFile == [dir |-> Default, user |-> "consul"]

Units == [dir : Dirs, user : {"root", "consul"}] \cup {Torn}
Files == {None, Empty, DefaultFile} \cup {Content(n, c) : n \in Node, c \in Confs}
Calls == [step : ConfigSteps \cup CleanupSteps, conf : Confs] \cup {Idle}
Ends == [phase : {"config", "cleanup"}, conf : Confs] \cup {Nothing}

TypeOK ==
  /\ unit \in [Node -> Units]
  /\ call \in [Node -> Calls]
  /\ done \in [Node -> Ends]
  /\ hcl \in [Node -> [Dirs -> Files]]
  /\ owner \in [Node -> [Dirs -> {None, "root", "consul"}]]
  /\ used \in [Node -> SUBSET Confs]

\* A node's phase at a step has behind it: u is the unit, h the files, o the
\* owners, c the call, e the end of the last phase and us the configurations used.
Behind(n, u, h, c, e, us) ==
  /\ c # Idle => e = Nothing
  /\ c.step \in ConfigSteps => c.conf \in us
  /\ c.step \in {"open", "write", "chown"} => u = [dir |-> Path[c.conf], user |-> "root"]
  /\ c.step = "chown" => h[Path[c.conf]] = Content(n, c.conf)
  /\ c.step \in {"remove", "copy", "chownDefault"} => u \in {Torn, DefaultUnitFile}
  /\ c.step \in {"copy", "chownDefault"} /\ Path[c.conf] # Default => h[Path[c.conf]] = None
  /\ c.step = "chownDefault" => h[Default] = DefaultFile

Completed(n, u, h, o, e) ==
  /\ e.phase = "config" =>
       /\ u = [dir |-> Path[e.conf], user |-> "root"]
       /\ h[Path[e.conf]] = Content(n, e.conf) /\ o[Path[e.conf]] = "root"
  /\ e.phase = "cleanup" =>
       /\ u \in {Torn, DefaultUnitFile}
       /\ h[Default] = DefaultFile /\ o[Default] = "consul"

\* A file outside of the default directory is that of a configuration in use.
FilesUsed(h, us) ==
  \A d \in Dirs \ {Default} : h[d] # None => \E k \in us : Path[k] = d

NodeInv(n, u, h, o, c, e, us) ==
  Behind(n, u, h, c, e, us) /\ Completed(n, u, h, o, e) /\ FilesUsed(h, us)

ConsulInv ==
  TypeOK /\ \A n \in Node : NodeInv(n, unit[n], hcl[n], owner[n], call[n], done[n], used[n])
=============================================================================

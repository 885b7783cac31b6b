----------------------------- MODULE LdapSetup -----------------------------
(***************************************************************************)
(* The config and cleanup phases of openldap_setup on a node.  The base    *)
(* configuration deletes files of a running slapd, restarts it and adds    *)
(* entries one by one over LDAP; an add of an entry that is there fails.   *)
(* A phase may fail, or quit(), at every step, and is then tried again.    *)
(***************************************************************************)
EXTENDS Naturals, Sequences, FiniteSets

CONSTANTS
  Hosts,        \* the numbers of hosts a storage set may have
  Stuck,        \* the entries whose files may not be removable
  MaxPhases,
  None

VARIABLES
  disk,         \* the entries in the files of slapd.d and of the data directory
  live,         \* the entries the running slapd has; None when it does not run
  password,     \* the root password: of the configuration and of the database
  step,         \* where the phase under way is
  todo,         \* the entries it still has to add
  result,       \* how the last phase ended: its exit status, or None
  whole,        \* the last phase was a config that got to its end
  kept,         \* the entries that this phase should have removed, and could not
  clash,        \* those that an add of the phase found there
  phases

vars == <<disk, live, password, step, todo, result, whole, kept, clash, phases>>

\* In slapd.d: the modules, the overlays below the database, the database
\* itself and the schema; in the data directory the rest.
Modules == {"module unique", "module ppolicy", "module syncprov"}
Overlays == {"overlay unique", "overlay ppolicy", "overlay syncprov"}
Data == {"root", "Policies", "passwordDefault"}
Entry == Modules \cup Overlays \cup Data \cup {"schema ppolicy", "database"}

\* perform_base_config(), after the restart.
Added == <<"root", "module unique", "overlay unique", "schema ppolicy",
           "module ppolicy", "overlay ppolicy", "Policies", "passwordDefault">>

AddedSet == {Added[i] : i \in 1..8}

Init ==
  /\ disk = {"database"} /\ live = {"database"}
  /\ password = "none"
  /\ step = "idle" /\ todo = <<>> /\ result = None /\ whole = FALSE
  /\ kept = {} /\ clash = {} /\ phases = 0

Enter(next) ==
  /\ step = "idle" /\ phases < MaxPhases
  /\ phases' = phases + 1 /\ step' = next /\ result' = None /\ whole' = FALSE
  /\ todo' = <<>> /\ kept' = {} /\ clash' = {}

End(status) == step' = "idle" /\ result' = status

-----------------------------------------------------------------------------
(* BaseConfig.cleanup(): files are deleted whether slapd knows or not, the *)
(* data only when forceclean is the string 'True'.  What os.remove() makes *)
(* of a file is not looked at.                                             *)

Config ==
  /\ Enter("remove")
  /\ UNCHANGED <<disk, live, password>>

\* CleanupCmd: the replication attributes go first, which needs slapd.
Cleanup ==
  /\ live # None
  /\ Enter("cleanRemove")
  /\ UNCHANGED <<disk, live, password>>

Deleted(forceclean) ==
  Modules \cup Overlays \cup {"schema ppolicy", "database"}
  \cup IF forceclean = "True" THEN Data ELSE {}

\* One file holds all the data.
ByFile(entries) ==
  {s \in SUBSET entries : Data \cap s = {} \/ Data \cap entries \subseteq s}

\* safe_remove() passes over a file that stays.
RemoveFiles(forceclean) ==
  \E left \in ByFile(Stuck \cap disk \cap Deleted(forceclean)) :
    kept' = left /\ disk' = (disk \ Deleted(forceclean)) \cup left

RemoveWith(forceclean) ==
  /\ \/ step = "remove" /\ RemoveFiles(forceclean) /\ step' = "clearPassword"
     \/ step = "cleanRemove" /\ RemoveFiles("a boolean") /\ step' = "cleanPassword"
  /\ UNCHANGED <<live, password, todo, result, whole, clash, phases>>

RemoveNoForce == RemoveWith("a boolean")
Remove == RemoveWith("True")

\* The password, over LDAP: with slapd down the phase fails.
ClearPassword ==
  /\ step \in {"clearPassword", "cleanPassword"}
  /\ IF live = None
     THEN End("failed") /\ UNCHANGED password
     ELSE /\ password' = "none" /\ UNCHANGED result
          /\ step' = IF step = "clearPassword" THEN "template" ELSE "kill"
  /\ UNCHANGED <<disk, live, todo, whole, kept, clash, phases>>

\* The database as shipped, and the password and access of the configuration.
Template ==
  /\ step = "template"
  /\ disk' = disk \cup {"database"}
  /\ password' = "config"
  /\ step' = "kill" /\ todo' = Added
  /\ UNCHANGED <<live, result, whole, kept, clash, phases>>

\* kill -15 and slapd again; when either fails, quit() ends the phase with
\* the exit status of a success.
Kill ==
  /\ step = "kill"
  /\ \/ live # None /\ live' = None /\ step' = "start" /\ UNCHANGED result
     \/ End("exit 0") /\ UNCHANGED live
  /\ UNCHANGED <<disk, password, todo, whole, kept, clash, phases>>

StartSlapd ==
  /\ step = "start"
  /\ \/ /\ live' = disk
        /\ IF todo = <<>> THEN End("exit 0") ELSE step' = "add" /\ UNCHANGED result
     \/ End("exit 0") /\ UNCHANGED live
  /\ UNCHANGED <<disk, password, todo, whole, kept, clash, phases>>

-----------------------------------------------------------------------------
(* The attributes of the database and the entries.                         *)

Add ==
  /\ step = "add" /\ todo # <<>> /\ live # None
  /\ IF Head(todo) \in live
     THEN /\ clash' = {Head(todo)} /\ End("failed")
          /\ UNCHANGED <<disk, live, todo, password>>
     ELSE /\ disk' = disk \cup {Head(todo)} /\ live' = live \cup {Head(todo)}
          /\ todo' = Tail(todo) /\ password' = "both"
          /\ UNCHANGED <<step, result, clash>>
  /\ UNCHANGED <<whole, kept, phases>>

\* readinputhostfile() reads the hosts into a variable of its own, and
\* checkhostvalidity() then finds no name hostlist and raises.
CheckHostValidity == "failed"

\* setreplication() comes to nothing else.
SetReplication == End(CheckHostValidity) /\ whole' = FALSE

\* configure_openldap_replication(), for more than one host.
Replicate ==
  /\ step = "add" /\ todo = <<>>
  /\ \E hosts \in Hosts :
       IF hosts > 1 THEN SetReplication ELSE End("exit 0") /\ whole' = TRUE
  /\ UNCHANGED <<disk, live, password, todo, kept, clash, phases>>

\* A step fails (ping, chown, LDAP), or the phase is killed, some files deleted.
Fail ==
  /\ step # "idle"
  /\ IF step = "remove"
     THEN \E gone \in ByFile(disk \cap Deleted("True")) : disk' = disk \ gone
     ELSE UNCHANGED disk
  /\ End("failed")
  /\ UNCHANGED <<live, password, todo, whole, kept, clash, phases>>

\* systemd or somebody starts slapd again.
Revive ==
  /\ live = None /\ step = "idle"
  /\ live' = disk
  /\ UNCHANGED <<disk, password, step, todo, result, whole, kept, clash, phases>>

Next ==
  \/ Config \/ Cleanup \/ Remove \/ ClearPassword \/ Template \/ Kill
  \/ StartSlapd \/ Add \/ Replicate \/ Fail \/ Revive

Spec == Init /\ [][Next]_vars

-----------------------------------------------------------------------------
(* Properties.                                                             *)

(* What earlier attempts left, wherever they ended and in whatever order   *)
(* config and cleanup came, makes no add of a later config fail: an add    *)
(* that finds its entry finds one whose file this very config could not    *)
(* remove, and passed over.  A config that gets to its end has removed all *)
(* that it adds, and leaves slapd running with all entries, in its files   *)
(* too, and with both passwords set.                                       *)
ConfigRepeatable ==
  /\ clash \subseteq kept
  /\ whole =>
       /\ step = "idle" /\ password = "both" /\ kept \cap AddedSet = {}
       /\ AddedSet \subseteq disk /\ (live # None => AddedSet \subseteq live)

-----------------------------------------------------------------------------
(* Why ConfigRepeatable holds: what config will add is off the disk from   *)
(* the deletion on, or could not be removed, and slapd, which starts from  *)
(* the disk, has these and the entries added so far.                       *)

Within == disk \subseteq Entry /\ (live = None \/ live \subseteq Entry)

Missing == \A i \in 1..8 : Added[i] \in disk => Added[i] \in kept

\* Entries 1 to n were added, the others are to come.
AddedUpTo(n) ==
  /\ todo \in Seq(AddedSet) /\ Len(todo) = 8 - n
  /\ \A i \in 1..(8 - n) : todo[i] = Added[n + i]
  /\ \A i \in 1..n : Added[i] \in live /\ Added[i] \in disk /\ Added[i] \notin kept
  /\ \A i \in (n + 1)..8 : Added[i] \in live => Added[i] \in kept
  /\ n > 0 => password = "both"

LdapInv ==
  /\ Within
  /\ clash \subseteq kept /\ (step # "idle" => clash = {})
  /\ step \in {"clearPassword", "template"} => Missing /\ kept \subseteq disk
  /\ step \in {"remove", "clearPassword", "cleanRemove", "cleanPassword", "template"} => todo = <<>>
  /\ step \in {"kill", "start"} /\ todo # <<>> => todo = Added /\ Missing /\ kept \subseteq disk
  /\ step = "add" => live # None /\ kept \subseteq live /\ \E n \in 0..8 : AddedUpTo(n)
  /\ whole => /\ step = "idle" /\ password = "both" /\ kept \cap AddedSet = {}
              /\ AddedSet \subseteq disk /\ (live # None => AddedSet \subseteq live)
=============================================================================

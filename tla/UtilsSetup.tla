----------------------------- MODULE UtilsSetup -----------------------------
(***************************************************************************)
(* utils_setup on the nodes of a cluster: init registers the message types *)
(* of the utilities at the broker that the configuration names, reset      *)
(* deletes the messages of every type, cleanup the types, and upgrade      *)
(* brings the configuration up to a change set and runs init.  The nodes   *)
(* run phases at their own times, the broker refuses or loses requests,    *)
(* and a phase may be killed.  How the broker's client works, and how a    *)
(* configuration file is written, is in TopicAdmin and ConfStore.          *)
(***************************************************************************)
EXTENDS Naturals, Sequences

CONSTANTS
  Node,
  Broker,       \* lists of endpoints
  Type,         \* the message types that there can be
  Begin,        \* the configuration at first
  ChangeSets,   \* the change sets of upgrades
  MaxPhases, MaxFaults,
  None

VARIABLES
  gconf,        \* gconf[n]: the backend, and endpoints[b] of backend b or None
  dbConf,       \* utils_db_conf in Consul: the node that imported it last, or None
  topics,       \* topics[b]: the message types that broker b has
  messages,     \* messages[b]: those that have messages
  run,          \* run[n]: the phase under way or the last one
  phases, faults

vars == <<gconf, dbConf, topics, messages, run, phases, faults>>

Wanted == {"IEM", "audit_messages"}
Backend == DOMAIN Begin.endpoints

\* The broker that a phase works with.
BrokerOf(conf) == conf.endpoints[conf.backend]

Idle == [phase |-> "none", step |-> "ended", outcome |-> None]

Init ==
  /\ gconf = [n \in Node |-> Begin]
  /\ dbConf = None
  /\ topics = [b \in Broker |-> {}]
  /\ messages = [b \in Broker |-> {}]
  /\ run = [n \in Node |-> Idle]
  /\ phases = 0 /\ faults = 0

-----------------------------------------------------------------------------
(* main(): whatever the outcome of the phase, the process ends with 0.     *)

At(n, phase, step) == run[n].phase = phase /\ run[n].step = step
Goto(n, step) == run' = [run EXCEPT ![n].step = step]
Ends(n, outcome) == run' = [run EXCEPT ![n].step = "ended", ![n].outcome = outcome]

\* Cmd.get_command(), and process() up to the first thing the phase does.
Enter(n, phase, step) ==
  /\ run[n].step = "ended" /\ phases < MaxPhases
  /\ phases' = phases + 1
  /\ run' = [run EXCEPT ![n] =
       [phase |-> phase, step |-> step, conf |-> gconf[n], delta |-> None, list |-> {},
        found |-> {}, disturbed |-> FALSE, outcome |-> None]]

\* A request to the broker, to Consul or to the host fails, which the phase turns
\* into a SetupError, or the phase is killed.
Fail(n) ==
  /\ run[n].step # "ended" /\ faults < MaxFaults
  /\ faults' = faults + 1
  /\ Ends(n, "error")
  /\ UNCHANGED <<gconf, dbConf, topics, messages, phases>>

-----------------------------------------------------------------------------
(* Phases that change nothing at the broker.                               *)

\* The keys are there; the map of the nodes is set in memory.
PostInstall(n) == Enter(n, "post_install", "import") /\ UNCHANGED <<gconf, dbConf, topics, messages, faults>>
CopyDatabaseConf(n) ==
  /\ At(n, "post_install", "import")
  /\ dbConf' = n
  /\ Ends(n, "done")
  /\ UNCHANGED <<gconf, topics, messages, phases, faults>>

\* The map again, and rsyslog, whose failure to restart is a warning.
Config(n) == Enter(n, "config", "work") /\ UNCHANGED <<gconf, dbConf, topics, messages, faults>>

\* The tests of a plan, run by another process; hooks that do nothing.
Test(n) == Enter(n, "test", "work") /\ UNCHANGED <<gconf, dbConf, topics, messages, faults>>
Hooks == {"prepare", "pre_upgrade", "post_upgrade"}
Hook(n, phase) ==
  /\ phase \in Hooks
  /\ Enter(n, phase, "work")
  /\ UNCHANGED <<gconf, dbConf, topics, messages, faults>>
Work(n) ==
  /\ run[n].step = "work"
  /\ Ends(n, "done")
  /\ UNCHANGED <<gconf, dbConf, topics, messages, phases, faults>>

-----------------------------------------------------------------------------
(* init                                                                    *)

InitPhase(n) == Enter(n, "init", "create") /\ UNCHANGED <<gconf, dbConf, topics, messages, faults>>

\* What init makes of the first result that is no success: with an error that says
\* that the type exists, it is done.
\* Mutant: with any error.
OutcomeLenient(first) == "done"
Outcome(first) == IF first = "failed" THEN "error" ELSE "done"

\* register_message_type() sends one request for both types.  Each of them is made,
\* is there already, or fails; the results are looked at in order, and the first
\* that is no success ends it, which init takes for a success if it says that the
\* type exists.  Without endpoints there is nobody to ask.
Create(n) ==
  /\ run[n].step = "create"
  /\ UNCHANGED <<gconf, dbConf, messages, phases>>
  /\ LET b == BrokerOf(run[n].conf)
     IN  IF b = None
         THEN Ends(n, "error") /\ UNCHANGED <<topics, faults>>
         ELSE \E failed \in SUBSET (Wanted \ topics[b]) :
                /\ failed # {} => faults < MaxFaults
                /\ faults' = IF failed = {} THEN faults ELSE faults + 1
                /\ topics' = [topics EXCEPT ![b] = @ \cup (Wanted \ failed)]
                /\ LET Result(t) == CASE t \in topics[b] -> "exists"
                                      [] t \in failed -> "failed"
                                      [] OTHER -> "made"
                       first == IF Result("IEM") # "made" THEN Result("IEM")
                                ELSE Result("audit_messages")
                   IN  run' = [run EXCEPT
                         ![n].step = "ended", ![n].found = Wanted \cap topics[b],
                         ![n].outcome = Outcome(first)]

-----------------------------------------------------------------------------
(* reset and cleanup: of every type that the broker lists.                 *)

Reset(n) == Enter(n, "reset", "list") /\ UNCHANGED <<gconf, dbConf, topics, messages, faults>>
Cleanup(n) == Enter(n, "cleanup", "list") /\ UNCHANGED <<gconf, dbConf, topics, messages, faults>>

ListTypes(n) ==
  /\ run[n].step = "list"
  /\ LET b == BrokerOf(run[n].conf)
     IN  CASE b = None -> Ends(n, "error")
           [] b # None /\ topics[b] = {} -> Ends(n, "done")
           [] OTHER -> run' = [run EXCEPT ![n].step = IF run[n].phase = "reset" THEN "delete"
                                                      ELSE "deregister",
                                          ![n].list = topics[b]]
  /\ UNCHANGED <<gconf, dbConf, topics, messages, phases, faults>>

\* A producer's delete() for one type after the other; for one that is gone it fails.
DeleteMessages(n, t) ==
  /\ At(n, "reset", "delete") /\ t \in run[n].list
  /\ LET b == BrokerOf(run[n].conf)
     IN  IF t \in topics[b]
         THEN /\ messages' = [messages EXCEPT ![b] = @ \ {t}]
              /\ run' = [run EXCEPT ![n].list = @ \ {t},
                                    ![n].step = IF run[n].list = {t} THEN "ended" ELSE @,
                                    ![n].outcome = IF run[n].list = {t} THEN "done" ELSE @]
         ELSE Ends(n, "error") /\ UNCHANGED messages
  /\ UNCHANGED <<gconf, dbConf, topics, phases, faults>>

\* One request for all types; those that are gone already make it an error.
Deregister(n) ==
  /\ At(n, "cleanup", "deregister")
  /\ LET b == BrokerOf(run[n].conf)
         gone == ~(run[n].list \subseteq topics[b])
     IN  /\ topics' = [topics EXCEPT ![b] = @ \ run[n].list]
         /\ messages' = [messages EXCEPT ![b] = @ \ run[n].list]
         /\ run' = [m \in Node |->
              IF m = n THEN [run[n] EXCEPT !.step = "ended", !.outcome = IF gone THEN "error" ELSE "done"]
              ELSE IF run[m].phase = "none" \/ BrokerOf(run[m].conf) # b THEN run[m]
              ELSE [run[m] EXCEPT !.disturbed = TRUE]]
  /\ UNCHANGED <<gconf, dbConf, phases, faults>>

-----------------------------------------------------------------------------
(* upgrade: the change set has keys such as changed>cortx>external>kafka>..*)

\* A key of the change set, and what upgrade() looks for in it: the prefix,
\* EXTERNAL_KEY and the backend, put together as they are.
DeltaKey(e) == <<e.prefix, ">", "cortx", ">", "external", ">", e.backend, ">", "endpoints">>
Searched(prefix, backend) == <<prefix, ">", "cortx", ">", "external", backend>>
In(part, key) ==
  \E i \in 1..Len(key) : i + Len(part) - 1 <= Len(key) /\ SubSeq(key, i, i + Len(part) - 1) = part

\* The endpoints that the entries with the prefix for backend b give.
Found(delta, prefix, b) == {e \in delta.entries : e.prefix = prefix /\ In(Searched(prefix, b), DeltaKey(e))}

Applied(conf, delta) ==
  LET b == IF delta.backend = None THEN conf.backend ELSE delta.backend
      set == Found(delta, IF delta.backend = None THEN "changed" ELSE "new", b)
      removed == IF delta.backend = None THEN {} ELSE Found(delta, "deleted", b)
  IN  [backend |-> b,
       endpoints |-> [c \in Backend |->
         IF \E e \in removed : e.backend = c THEN None
         ELSE IF \E e \in set : e.backend = c THEN (CHOOSE e \in set : e.backend = c).value
         ELSE conf.endpoints[c]]]

Upgrade(n, delta) ==
  /\ run[n].step = "ended" /\ phases < MaxPhases
  /\ phases' = phases + 1
  /\ run' = [run EXCEPT ![n] =
       [phase |-> "upgrade", step |-> "save", conf |-> Applied(gconf[n], delta), delta |-> delta,
        list |-> {}, found |-> {}, disturbed |-> FALSE, outcome |-> None]]
  /\ UNCHANGED <<gconf, dbConf, topics, messages, faults>>

Save(n) ==
  /\ At(n, "upgrade", "save")
  /\ gconf' = [gconf EXCEPT ![n] = run[n].conf]
  /\ Goto(n, "create")
  /\ UNCHANGED <<dbConf, topics, messages, phases, faults>>

-----------------------------------------------------------------------------
\* Messages are sent to a type by others.
Send(b, t) ==
  /\ t \in topics[b] \ messages[b]
  /\ messages' = [messages EXCEPT ![b] = @ \cup {t}]
  /\ UNCHANGED <<gconf, dbConf, topics, run, phases, faults>>

Next ==
  \/ \E n \in Node :
       \/ PostInstall(n) \/ CopyDatabaseConf(n) \/ Config(n) \/ Test(n) \/ Work(n)
       \/ \E phase \in Hooks : Hook(n, phase)
       \/ InitPhase(n) \/ Create(n)
       \/ Reset(n) \/ Cleanup(n) \/ ListTypes(n) \/ Deregister(n)
       \/ \E t \in Type : DeleteMessages(n, t)
       \/ \E delta \in ChangeSets : Upgrade(n, delta)
       \/ Save(n) \/ Fail(n)
  \/ \E b \in Broker, t \in Type : Send(b, t)

Spec == Init /\ [][Next]_vars

-----------------------------------------------------------------------------
(* Properties                                                              *)

\* After an init or an upgrade that returned 0, and until a cleanup, the broker that
\* it was given has the message type IEM, though other nodes register it at the same
\* time and requests fail; and it has audit_messages, unless its request found IEM
\* there and audit_messages not: only then is a failure taken for a type that exists
\* (utils.py lines 122-124).
TypesRegistered ==
  \A n \in Node :
    run[n].phase \in {"init", "upgrade"} /\ run[n].outcome = "done" /\ ~run[n].disturbed =>
      LET there == topics[BrokerOf(run[n].conf)] IN
      "IEM" \in there /\ ("audit_messages" \in there \/ run[n].found = {"IEM"})

\* After an upgrade that returned 0 the configuration has the endpoints that the
\* change set gives for the message bus ("update existing messagebus parameters",
\* "add new and delete old msg bus entries", utils.py lines 220 and 234).  It does
\* not hold: no key of a change set has what upgrade() looks for.
UpgradeApplied ==
  \A n \in Node :
    run[n].phase = "upgrade" /\ run[n].outcome = "done" =>
      \A e \in run[n].delta.entries :
        e.backend = gconf[n].backend => gconf[n].endpoints[e.backend] = e.value

-----------------------------------------------------------------------------
(* Why TypesRegistered holds: what an init that is done has seen stays so  *)
(* until a cleanup, which disturbs every run at its broker.                *)

Confs == [backend : Backend, endpoints : [Backend -> Broker \cup {None}]]
Runs ==
  [phase : {"post_install", "config", "test", "init", "reset", "cleanup", "upgrade"} \cup Hooks,
   step : {"import", "work", "create", "list", "delete", "deregister", "save", "ended"},
   conf : Confs, delta : ChangeSets \cup {None}, list : SUBSET Type,
   found : SUBSET Type, disturbed : BOOLEAN, outcome : {None, "done", "error"}]

Registered(r) ==
  LET b == BrokerOf(r.conf) IN
  /\ b \in Broker /\ "IEM" \in topics[b]
  /\ "audit_messages" \in topics[b] \/ r.found = {"IEM"}

RunInv(r) ==
  r.phase \in {"init", "upgrade"} =>
    /\ r.step \in {"save", "create", "ended"}
    /\ r.step # "ended" => r.outcome = None
    /\ r.outcome = "done" /\ ~r.disturbed => Registered(r)

UtilsInv ==
  /\ gconf \in [Node -> Confs] /\ topics \in [Broker -> SUBSET Type]
  /\ run \in [Node -> Runs \cup {Idle}]
  /\ \A n \in Node : run[n] \in Runs => RunInv(run[n])
=============================================================================

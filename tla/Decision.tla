------------------------------ MODULE Decision ------------------------------
(***************************************************************************)
(* The HA decision store: DecisionMaker puts a decision, keyed by resource *)
(* and event time, for every alert the rules give an action for;           *)
(* DecisionMonitors, in processes of their own, read the status of the     *)
(* resources of a group one after the other, and acknowledge resources by  *)
(* deleting their decisions from Consul one key at a time.                 *)
(*                                                                         *)
(* window, old and the field clean of a call are history: what was true    *)
(* since a call began, and whether all its requests succeeded.             *)
(***************************************************************************)
EXTENDS Naturals, Sequences, FiniteSets

CONSTANTS
  Monitor,    \* processes with a DecisionMonitor
  Resource,
  Group,      \* resource groups: sequences of resources
  Like,       \* Like[r]: the resources whose id contains the id of r
  Key,        \* keys of decisions: a resource and an event time
  None,
  MaxAlerts, MaxCalls,
  MaxFaults   \* bound on requests to Consul that fail or time out

ASSUME ConstantsAssumption ==
  /\ Group \subseteq Seq(Resource) \ {<<>>}
  /\ Like \in [Resource -> SUBSET Resource] /\ \A r \in Resource : r \in Like[r]
  /\ Key \subseteq Resource \X Nat
  /\ MaxAlerts \in Nat /\ MaxCalls \in Nat /\ MaxFaults \in Nat

Action == {"failed", "resolved"}

VARIABLES
  events,   \* events[k]: the action stored under a key, or None
  storing,  \* decisions whose put is under way
  alerts,   \* alerts handled so far
  calls,    \* calls begun so far
  faults,   \* requests that failed so far
  call,     \* call[m]: the call the monitor is in, or has ended
  late,     \* keys whose deletion went on after its call gave up on it
  window,   \* window[m]: resources that were failed, and that were not
  old       \* old[m]: keys stored when an acknowledgement began, not put again

vars == <<events, storing, alerts, calls, faults, call, late, window, old>>

Ops == {"status", "ack", "force"}
Steps == {"status", "fetch", "delete", "ended"}

Call == [op : Ops, step : Steps, group : Group \cup {<<>>}, at : Nat \ {0},
         seen : SUBSET (Action \cup {"ok"}), keys : SUBSET Key,
         clean : BOOLEAN, result : Action \cup {"ok", None}]

TypeOK ==
  /\ events \in [Key -> Action \cup {None}]
  /\ storing \subseteq Key \X Action
  /\ alerts \in 0..MaxAlerts /\ calls \in 0..MaxCalls /\ faults \in 0..MaxFaults
  /\ call \in [Monitor -> Call]
  /\ \A m \in Monitor : call[m].step # "ended" => call[m].at <= Len(call[m].group)
  /\ late \subseteq Key
  /\ window \in [Monitor -> [failed : SUBSET Resource, fine : SUBSET Resource]]
  /\ old \in [Monitor -> SUBSET Key]

NoCall == [op |-> "status", step |-> "ended", group |-> <<>>, at |-> 1, seen |-> {},
           keys |-> {}, clean |-> TRUE, result |-> None]

Init ==
  /\ events = [k \in Key |-> None]
  /\ storing = {} /\ alerts = 0 /\ calls = 0 /\ faults = 0 /\ late = {}
  /\ call = [m \in Monitor |-> NoCall]
  /\ window = [m \in Monitor |-> [failed |-> {}, fine |-> {}]]
  /\ old = [m \in Monitor |-> {}]

\* The keys get() and delete() select for a resource: 'like' is contains().
Selected(r) == {k \in Key : k[1] \in Like[r] /\ events[k] # None}

\* What sorting by alert_time may put first.
Newest(r) == {events[k] : k \in {k \in Selected(r) : \A x \in Selected(r) : x[2] <= k[2]}}

Failed(r) == "failed" \in Newest(r)
Fine(r) == Newest(r) # {"failed"}

Range(g) == {g[i] : i \in 1..Len(g)}

\* What is so now.
Seen == [failed |-> {r \in Resource : Failed(r)}, fine |-> {r \in Resource : Fine(r)}]

Both(v, w) == [failed |-> v.failed \cup w.failed, fine |-> v.fine \cup w.fine]

\* History: a call begins, or one under way sees the next state.
Observe ==
  LET begins(m) == call[m].step = "ended" /\ call'[m].step # "ended"
      now == Seen'
  IN  /\ window' = [m \in Monitor |->
           IF begins(m) THEN now
           ELSE IF call[m].step = "ended" THEN window[m]
           ELSE Both(window[m], now)]
      /\ old' = [m \in Monitor |->
           IF call'[m].op = "status" THEN {}
           ELSE IF begins(m) THEN {k \in Key : events[k] # None}
           ELSE old[m] \ {k \in Key : \E a \in Action : <<k, a>> \in storing \ storing'}]

-----------------------------------------------------------------------------
(* DecisionMaker                                                           *)

\* handle_alert() of an alert the rules give an action for.
HandleAlert(k, a) ==
  /\ alerts < MaxAlerts
  /\ alerts' = alerts + 1
  /\ storing' = storing \cup {<<k, a>>}
  /\ UNCHANGED <<events, calls, faults, call, late>>
  /\ Observe

\* store() of the decision: the put takes effect, or fails and the exception
\* is logged.
Store(e) ==
  /\ e \in storing
  /\ events' = [events EXCEPT ![e[1]] = e[2]]
  /\ storing' = storing \ {e}
  /\ UNCHANGED <<alerts, calls, faults, call, late>>
  /\ Observe

StoreFails(e) ==
  /\ e \in storing /\ faults < MaxFaults
  /\ faults' = faults + 1
  /\ storing' = storing \ {e}
  /\ UNCHANGED <<events, alerts, calls, call, late>>
  /\ Observe

-----------------------------------------------------------------------------
(* DecisionMonitor                                                         *)

Target(m) == call[m].group[call[m].at]

\* get_resource_group_status(), acknowledge_resource_group(), and with a group
\* of one get_resource_status() and acknowledge_resource(), forced or not.
Begin(m, op, g) ==
  /\ call[m].step = "ended" /\ calls < MaxCalls
  /\ calls' = calls + 1
  /\ op = "force" => Len(g) = 1
  /\ call' = [call EXCEPT ![m] =
       [op |-> op, step |-> IF op = "force" THEN "fetch" ELSE "status", group |-> g,
        at |-> 1, seen |-> {}, keys |-> {}, clean |-> TRUE, result |-> None]]
  /\ UNCHANGED <<events, storing, alerts, faults, late>>
  /\ Observe

\* On to the next resource of an acknowledgement, or the end.
Acknowledged(c) ==
  [c EXCEPT !.at = @ + 1, !.keys = {},
            !.step = IF c.at = Len(c.group) THEN "ended" ELSE "status"]

\* Mutant of Statuses: the answer is that of the last resource.
StatusesLast(c, s) ==
  IF c.at = Len(c.group) THEN [c EXCEPT !.at = @ + 1, !.step = "ended", !.result = s]
  ELSE [c EXCEPT !.at = @ + 1]

\* Mutant of Statuses: anything but "ok" counts as a failure.
StatusesStrict(c, s) ==
  IF s # "ok" THEN [c EXCEPT !.step = "ended", !.result = "failed"]
  ELSE IF c.at < Len(c.group) THEN [c EXCEPT !.at = @ + 1]
  ELSE [c EXCEPT !.at = @ + 1, !.step = "ended", !.result = "ok"]

\* The loop of get_resource_group_status() after status s of a resource: the
\* first failure ends it.
Statuses(c, s) ==
  IF s = "failed" THEN [c EXCEPT !.step = "ended", !.result = s]
  ELSE LET seen == c.seen \cup {s}
       IN  IF c.at < Len(c.group) THEN [c EXCEPT !.at = @ + 1, !.seen = seen]
           ELSE [c EXCEPT !.at = @ + 1, !.seen = seen, !.step = "ended",
                          !.result = IF "resolved" \in seen THEN "resolved" ELSE "ok"]

\* Mutant of Checked: a failure is acknowledged like anything else.
CheckedAlways(c, s) == [c EXCEPT !.step = "fetch"]

\* acknowledge_resource() after status s: a failure is left alone.
Checked(c, s) ==
  IF s = "failed" THEN Acknowledged(c) ELSE [c EXCEPT !.step = "fetch"]

Answer(c, s) == IF c.op = "status" THEN Statuses(c, s) ELSE Checked(c, s)

\* get_resource_status(): the newest decision, "ok" when there is none.
GetStatus(m) ==
  LET found == Newest(Target(m))
  IN  /\ call[m].step = "status"
      /\ \E s \in Action \cup {"ok"} :
           /\ s \in found \/ (s = "ok" /\ found = {})
           /\ call' = [call EXCEPT ![m] = Answer(@, s)]
      /\ UNCHANGED <<events, storing, alerts, calls, faults, late>>
      /\ Observe

\* It answers "ok" too when the decisions cannot be fetched in time.
GetStatusFails(m) ==
  /\ call[m].step = "status" /\ faults < MaxFaults
  /\ faults' = faults + 1
  /\ call' = [call EXCEPT ![m] = Answer([@ EXCEPT !.clean = FALSE], "ok")]
  /\ UNCHANGED <<events, storing, alerts, calls, late>>
  /\ Observe

\* Mutant of FetchKeys: only the newest decision is deleted.
FetchNewest(m) ==
  LET S == Selected(Target(m))
      keys == {k \in S : \A x \in S : x[2] <= k[2]}
  IN  /\ call[m].step = "fetch"
      /\ call' = [call EXCEPT ![m] = IF keys = {} THEN Acknowledged(@)
                                     ELSE [@ EXCEPT !.step = "delete", !.keys = keys]]
      /\ UNCHANGED <<events, storing, alerts, calls, faults, late>>
      /\ Observe

\* delete() of the storage first reads the keys to delete.
FetchKeys(m) ==
  LET keys == Selected(Target(m))
  IN  /\ call[m].step = "fetch"
      /\ call' = [call EXCEPT ![m] = IF keys = {} THEN Acknowledged(@)
                                     ELSE [@ EXCEPT !.step = "delete", !.keys = keys]]
      /\ UNCHANGED <<events, storing, alerts, calls, faults, late>>
      /\ Observe

\* Its delete requests run concurrently: one takes effect.
DeleteKey(m, k) ==
  /\ call[m].step = "delete" /\ k \in call[m].keys
  /\ events' = [events EXCEPT ![k] = None]
  /\ IF call[m].keys = {k} THEN call' = [call EXCEPT ![m] = Acknowledged(@)]
                           ELSE call' = [call EXCEPT ![m].keys = @ \ {k}]
  /\ UNCHANGED <<storing, alerts, calls, faults, late>>
  /\ Observe

\* Reading the keys or deleting them fails or times out, which is logged; the
\* delete tasks that are left are not cancelled.
DeleteFails(m) ==
  /\ call[m].step \in {"fetch", "delete"} /\ faults < MaxFaults
  /\ faults' = faults + 1
  /\ late' = late \cup call[m].keys
  /\ call' = [call EXCEPT ![m] = Acknowledged([@ EXCEPT !.clean = FALSE])]
  /\ UNCHANGED <<events, storing, alerts, calls>>
  /\ Observe

LateDelete(k) ==
  /\ k \in late
  /\ late' = late \ {k}
  /\ events' = [events EXCEPT ![k] = None]
  /\ UNCHANGED <<storing, alerts, calls, faults, call>>
  /\ Observe

LateDeleteFails(k) ==
  /\ k \in late
  /\ late' = late \ {k}
  /\ UNCHANGED <<events, storing, alerts, calls, faults, call>>
  /\ Observe

-----------------------------------------------------------------------------
Next ==
  \/ \E k \in Key, a \in Action : HandleAlert(k, a)
  \/ \E e \in storing : Store(e) \/ StoreFails(e)
  \/ \E m \in Monitor :
       \/ \E op \in Ops, g \in Group : Begin(m, op, g)
       \/ GetStatus(m) \/ GetStatusFails(m) \/ FetchKeys(m) \/ DeleteFails(m)
       \/ \E k \in call[m].keys : DeleteKey(m, k)
  \/ \E k \in late : LateDelete(k) \/ LateDeleteFails(k)

Spec == Init /\ [][Next]_vars

-----------------------------------------------------------------------------
(* Properties                                                              *)

Answered(m) == call[m].op = "status" /\ call[m].step = "ended" /\ call[m].result # None

\* The answer for a group is "failed" only if a resource of it was failed during
\* the call, whatever requests fail (get_resource_group_status(), line 94).
FailedAnswerTrue ==
  \A m \in Monitor : Answered(m) /\ call[m].result = "failed" =>
    Range(call[m].group) \cap window[m].failed # {}

\* When no request of the call fails, any other answer means that each resource
\* of the group was, at some moment of the call, not failed (lines 91-101).
FineAnswerTrue ==
  \A m \in Monitor : Answered(m) /\ call[m].clean /\ call[m].result # "failed" =>
    Range(call[m].group) \subseteq window[m].fine

\* An acknowledgement that is not forced, and whose requests succeed, deletes
\* decisions of a resource only if the resource was, at some moment of the call,
\* not failed: a failure that stands throughout is kept (line 113).
AckKeepsFailure ==
  [][\A m \in Monitor :
       /\ call[m].op = "ack" /\ call[m].step = "delete" /\ call[m].clean
       /\ call'[m] # call[m]
       => Target(m) \in window[m].fine]_vars

\* Once an acknowledgement has ended whose requests succeeded, no decision there
\* was when it began is left of a resource that was not failed during it.
AckClears ==
  \A m \in Monitor : call[m].op # "status" /\ call[m].step = "ended" /\ call[m].clean =>
    \A r \in Range(call[m].group) \ window[m].failed :
      \A k \in old[m] : k[1] \in Like[r] => events[k] = None

-----------------------------------------------------------------------------
(* The inductive invariant of acknowledgements in DecisionProofs.          *)

\* No decision of r is left that there was when the call began.
Cleared(m, r) ==
  r \notin window[m].failed =>
    \A k \in old[m] : k[1] \in Like[r] => events[k] = None

\* An acknowledgement whose requests succeed has cleared what it has passed,
\* knows the keys it has still to delete of the resource it is at, and has seen
\* that resource not failed unless it is forced.
AckSound(m) ==
  call[m].op # "status" =>
    /\ call[m].step = "ended" => call[m].at > Len(call[m].group)
    /\ call[m].clean =>
         /\ \A i \in 1..Len(call[m].group) : i < call[m].at => Cleared(m, call[m].group[i])
         /\ call[m].step = "delete" =>
              \A k \in old[m] : k[1] \in Like[Target(m)] /\ events[k] # None => k \in call[m].keys
         /\ call[m].op = "ack" /\ call[m].step \in {"fetch", "delete"} =>
              Target(m) \in window[m].fine

AckInv == \A m \in Monitor : AckSound(m)
=============================================================================

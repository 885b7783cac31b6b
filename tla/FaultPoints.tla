---------------------------- MODULE FaultPoints ----------------------------
(***************************************************************************)
(* Fault injection: the table of fault points, the FP_ENABLED() macro that *)
(* registers its point the first time it runs and then asks whether the    *)
(* fault triggers, and fault_enable()/fault_disable() from a test.         *)
(*                                                                         *)
(* A find in the table is one critical section of fpt_lock, the rest of a  *)
(* call one of the fps_lock of the point: other threads run in between.    *)
(***************************************************************************)
EXTENDS Naturals, Sequences, FiniteSets

CONSTANTS
  Thread,     \* threads that run FP_ENABLED() sites, and enable or disable
  Point,      \* one site each: a function and a tag
  Specs,      \* the specs that sites may be given, each a function from points
              \*   to [type, start, end]
  InitSize,   \* IFAULT_INIT_TABLE_SIZE
  MaxHits,    \* bound on the hits of a point
  Overlap,    \* whether first runs of a site may overlap: fault.h says that
              \*   the interfaces are not thread safe
  None

VARIABLES
  given,    \* given[p]: the spec that p is given at its site
  table,    \* fpt_list up to fpt_idx: the states of the points found so far
  size,     \* fpt_size
  freed,    \* realloc() moved the states: fpt_list points to freed memory
  known,    \* known[p]: fp.fp_state of the site is set
  call,     \* call[t]: the call t is in
  fired,    \* fired[p]: the hits at which p triggered since its registration
  aborted,  \* an assert() failed, or a handler that was never set was called
  cleaned   \* fault_cleanup() has run

vars == <<given, table, size, freed, known, call, fired, aborted, cleaned>>

NoCall == [op |-> "idle", point |-> None, state |-> 0]

\* A state that fp_state_init() made: its data and handler are not set yet.
NewState(p) == [id |-> p, on |-> FALSE, fp |-> None, type |-> None,
                hits |-> 0, once |-> FALSE]

\* fault_init(): an empty table of the initial size.
Init ==
  /\ given \in Specs
  /\ table = <<>> /\ size = InitSize /\ freed = FALSE
  /\ known = [p \in Point |-> FALSE]
  /\ call = [t \in Thread |-> NoCall]
  /\ fired = [p \in Point |-> {}]
  /\ aborted = FALSE /\ cleaned = FALSE

Running == ~aborted /\ ~freed
Goto(t, c) == call' = [call EXCEPT ![t] = c]

-----------------------------------------------------------------------------
(* The table.                                                              *)

\* A comparison that never matches.
FoundNone(p) == {}

\* fp_id_equal(): the entry that a loop over the table stops at.
Found(p) == {k \in 1..Len(table) : table[k].id = p}

\* fp_table_realloc_states(): twice the size.  The pointer realloc() returns
\* is not stored, so that fpt_list is good only if the block stayed in place.
Grow ==
  /\ size' = 2 * size
  /\ freed' \in BOOLEAN

\* fp_state_find(): the state of p, made at the end of the table if there is
\* none.  The caller goes on with op.
Find(t, p, op) ==
  \/ /\ Found(p) # {}
     /\ Goto(t, [op |-> op, point |-> p, state |-> CHOOSE k \in Found(p) : TRUE])
     /\ UNCHANGED <<table, size, freed>>
  \/ /\ Found(p) = {}
     /\ IF Len(table) = size THEN Grow ELSE UNCHANGED <<size, freed>>
     /\ table' = Append(table, NewState(p))
     /\ Goto(t, [op |-> op, point |-> p, state |-> Len(table) + 1])

-----------------------------------------------------------------------------
(* Whether a fault triggers: the handlers of fault_spec_table, by the type *)
(* of the point and the hit count just incremented.  The possible results. *)

InWindow(p, hits) == hits >= given[p].start /\ hits <= given[p].end

Triggers(s, p) ==
  CASE s.type = "once"    -> {s.hits >= given[p].start /\ ~s.once}
    [] s.type = "always"  -> {s.hits >= given[p].start}
    [] s.type = "repeat"  -> {InWindow(p, s.hits)}
    [] s.type = "skip"    -> {~InWindow(p, s.hits)}
    [] s.type = "delay"   -> {TRUE}
    [] OTHER              -> BOOLEAN     \* fp_random_spec, fp_user_func_spec

-----------------------------------------------------------------------------
(* FP_ENABLED(): register the site unless fp_state is set, then ask.       *)

FpEnabled(t, p) ==
  /\ Running /\ call[t] = NoCall
  /\ IF known[p]
     THEN Goto(t, [op |-> "enabled", point |-> p, state |-> 0])
     ELSE /\ Overlap \/ \A u \in Thread :
                           call[u].point = p => call[u].op \notin {"register", "attach"}
          /\ Goto(t, [op |-> "register", point |-> p, state |-> 0])
  /\ UNCHANGED <<table, size, freed, known, fired, aborted, cleaned>>

FindState(t) ==
  /\ Running
  /\ \/ /\ call[t].op = "register" /\ Find(t, call[t].point, "attach")
     \/ /\ call[t].op = "enabled" /\ Find(t, call[t].point, "hit")
     \/ /\ call[t].op = "enable" /\ Find(t, call[t].point, "on")
     \/ /\ call[t].op = "disable" /\ Find(t, call[t].point, "off")
  /\ UNCHANGED <<known, fired, aborted, cleaned>>

\* fault_register(): the assert on fps_fp, then, under fps_lock, the data,
\* the handler, and the links between site and state.
Attach(t) ==
  /\ Running /\ call[t].op = "attach"
  /\ LET k == call[t].state  p == call[t].point IN
     /\ aborted' = (table[k].fp # None)
     /\ table' = IF table[k].fp # None THEN table
                 ELSE [table EXCEPT ![k].type = given[p].type, ![k].hits = 0,
                                    ![k].once = FALSE, ![k].fp = p]
     /\ known' = [known EXCEPT ![p] = TRUE]
     /\ fired' = [fired EXCEPT ![p] = {}]
     /\ Goto(t, [op |-> "enabled", point |-> p, state |-> 0])
  /\ UNCHANGED <<size, freed, cleaned>>

\* fault_enabled(): count the hit and, if the point is on, ask its handler.
HitWith(t, once) ==
  /\ Running /\ call[t].op = "hit"
  /\ LET k == call[t].state  p == call[t].point
         s == [table[k] EXCEPT !.hits = @ + 1] IN
     /\ table[k].hits < MaxHits
     /\ \E triggers \in IF s.on /\ s.type # None THEN Triggers(s, p) ELSE {FALSE} :
          /\ table' = [table EXCEPT ![k] =
               [s EXCEPT !.once = @ \/ (once /\ s.type = "once" /\ triggers)]]
          /\ fired' = [fired EXCEPT ![p] = IF triggers THEN @ \cup {s.hits} ELSE @]
     /\ aborted' = (s.on /\ s.type = None)
     /\ Goto(t, NoCall)
  /\ UNCHANGED <<size, freed, known, cleaned>>

\* A handler that forgets that its fault has triggered.
HitForgetful(t) == HitWith(t, FALSE)

FaultEnabled(t) == HitWith(t, TRUE)

\* fault_enable() and fault_disable() from a test, for any point, also
\* before its site has run; fp_state_enable() and fp_state_disable().
Switch(t, p, op) ==
  /\ Running /\ call[t] = NoCall
  /\ Goto(t, [op |-> op, point |-> p, state |-> 0])
  /\ UNCHANGED <<table, size, freed, known, fired, aborted, cleaned>>

SetEnabled(t) ==
  /\ Running /\ call[t].op \in {"on", "off"}
  /\ table' = [table EXCEPT ![call[t].state].on = (call[t].op = "on")]
  /\ Goto(t, NoCall)
  /\ UNCHANGED <<size, freed, known, fired, aborted, cleaned>>

\* fault_cleanup() and a fault_init() after it, once no call is under way.
\* A site keeps its fp_state, and so never registers again.
Cleanup ==
  /\ Running /\ ~cleaned /\ \A t \in Thread : call[t] = NoCall
  /\ table' = <<>> /\ size' = InitSize /\ cleaned' = TRUE
  /\ fired' = [p \in Point |-> {}]
  /\ UNCHANGED <<freed, known, call, aborted>>

Next ==
  /\ \/ \E t \in Thread, p \in Point :
          \/ FpEnabled(t, p)
          \/ \E op \in {"enable", "disable"} : Switch(t, p, op)
     \/ \E t \in Thread : FindState(t) \/ Attach(t) \/ FaultEnabled(t) \/ SetEnabled(t)
     \/ Cleanup
  /\ UNCHANGED given

Spec == Init /\ [][Next]_vars

-----------------------------------------------------------------------------
(* Properties.                                                             *)

(* Whatever the threads interleave and switch on and off, a point          *)
(* registered ONCE triggers at most once, and SKIP points never in their   *)
(* window of hits and REPEAT points only there, however often they are hit *)
(* after it: the handlers of fault_spec_table, which know one window, do   *)
(* not repeat the cycle that fault.h 40-43 speaks of.                      *)
TriggersAsSpecified ==
  \A p \in Point :
    CASE given[p].type = "once"   -> Cardinality(fired[p]) <= 1
      [] given[p].type = "repeat" -> \A h \in fired[p] : InWindow(p, h)
      [] given[p].type = "skip"   -> \A h \in fired[p] : ~InWindow(p, h)
      [] OTHER                    -> TRUE

(* Find-or-create under fpt_lock: a point never has two states in the      *)
(* table, a call works on the state of its own point, and until            *)
(* fault_cleanup() no assert of fault_register() fails and no handler is   *)
(* called before it is set, also when a point is enabled before its site   *)
(* has run for the first time.                                             *)
OneStatePerPoint ==
  /\ aborted => cleaned
  /\ \A j, k \in 1..Len(table) : table[j].id = table[k].id => j = k
  /\ \A t \in Thread : call[t].state # 0 => table[call[t].state].id = call[t].point

-----------------------------------------------------------------------------
(* Why the two hold: what the states of the table and the calls of the     *)
(* threads have to do with the sites.                                      *)

Types == {s[p].type : s \in Specs, p \in Point}
States == [id : Point, on : BOOLEAN, fp : Point \cup {None}, type : Types \cup {None},
           hits : Nat, once : BOOLEAN]
Locating == {"register", "enabled", "enable", "disable"}
Located == {"attach", "hit", "on", "off"}
Calls == [op : {"idle"} \cup Locating \cup Located, point : Point \cup {None}, state : Nat]

TypeOK ==
  /\ given \in Specs
  /\ table \in Seq(States) /\ size \in Nat /\ freed \in BOOLEAN
  /\ known \in [Point -> BOOLEAN] /\ call \in [Thread -> Calls]
  /\ fired \in [Point -> SUBSET Nat] /\ aborted \in BOOLEAN /\ cleaned \in BOOLEAN

\* A state is that of one point; it has fired only with a type, and as a
\* once point only after it noted so.
StateInv(s) ==
  /\ s.fp # None => known[s.id]
  /\ s.type \in {None, given[s.id].type}
  /\ s.type = None => fired[s.id] = {}
  /\ given[s.id].type = "once" /\ ~s.once => fired[s.id] = {}

Unique == \A j, k \in 1..Len(table) : table[j].id = table[k].id => j = k

PointInv(p) ==
  /\ fired[p] # {} => Found(p) # {}
  /\ known[p] /\ ~cleaned => \E k \in 1..Len(table) : table[k].id = p /\ table[k].type # None
  /\ given[p].type = "once" => \A h, i \in fired[p] : h = i
  /\ given[p].type = "repeat" => \A h \in fired[p] : InWindow(p, h)
  /\ given[p].type = "skip" => \A h \in fired[p] : ~InWindow(p, h)

CallInv(t) ==
  LET c == call[t] IN
  /\ c.op # "idle" => c.point \in Point
  /\ c.state = 0 <=> c.op \notin Located
  /\ c.op \in Located => c.state \in 1..Len(table) /\ table[c.state].id = c.point
  /\ c.op \in {"enabled", "hit"} => known[c.point]

\* Only one thread runs a site for the first time, and registers it.
Registers(t, p) == call[t].op \in {"register", "attach"} /\ call[t].point = p

RegisterInv(t, p) ==
  Registers(t, p) => ~known[p] /\ \A u \in Thread : Registers(u, p) => u = t

FaultInv ==
  /\ TypeOK /\ Unique /\ (aborted => cleaned)
  /\ \A k \in 1..Len(table) : StateInv(table[k])
  /\ \A p \in Point : PointInv(p)
  /\ \A t \in Thread : CallInv(t) /\ \A p \in Point : RegisterInv(t, p)
=============================================================================

--------------------------- MODULE CUtilsProofs ----------------------------
(***************************************************************************)
(* The safety properties of the parts of c-utils (CUtils), for every value *)
(* of their parameters, laid out as those of py-utils are in               *)
(* PyUtilsProofs.  The first section is of a small module of its own, the  *)
(* creation of a database (DbProvider), which shares no name with CUtils.  *)
(***************************************************************************)
EXTENDS CUtils, DbProvider, FiniteSetTheorems, SequenceTheorems, TLAPS

-----------------------------------------------------------------------------
(* A database is created once, for any number of storage calls and of      *)
(* failed creations.                                                       *)

\* The part of TypeOK that the argument needs: the queue of the loop does not
\* matter to it.
PlacesOK ==
  /\ status \in {"not created", "in progress", "ready"}
  /\ made \in Nat
  /\ pc \in [Call -> Places]

CreatedInv == PlacesOK /\ CreatedOnce

\* A call that finds no database and no creation under way takes the creation
\* on in the same step, before any other call can look at the status.
LEMMA WaitStep ==
  ASSUME CreatedInv, NEW c \in Call, NEW q, pc[c] \in {"check", "waiting"}, WaitDbCreation(c, q)
  PROVE  CreatedInv'
<1> USE DEF CreatedInv, PlacesOK, CreatedOnce, Creating, Places
<1>1. UNCHANGED made
  BY DEF WaitDbCreation
<1>2. CASE status = "ready"
  BY <1>1, <1>2 DEF WaitDbCreation
<1>3. CASE status = "not created"
  BY <1>1, <1>3 DEF WaitDbCreation
<1>4. CASE status = "in progress"
  BY <1>1, <1>4 DEF WaitDbCreation
<1> QED
  BY <1>2, <1>3, <1>4

\* Whatever the order in which calls, wake-ups and failures of the driver are
\* served, one call at a time runs create_database() and one at most succeeds.
THEOREM CreatedCorrect == Spec => []CreatedOnce
<1>1. Init => CreatedInv
  <2> SUFFICES ASSUME Init PROVE CreatedInv
    OBVIOUS
  <2>1. PlacesOK /\ made = 0 /\ status = "not created"
    BY DEF Init, PlacesOK, Places
  <2>2. \A c \in Call : ~Creating(c)
    BY DEF Init, Creating
  <2> QED
    BY <2>1, <2>2 DEF CreatedInv, CreatedOnce
<1>2. CreatedInv /\ [Next]_vars => CreatedInv'
  <2> SUFFICES ASSUME CreatedInv, [Next]_vars PROVE CreatedInv'
    OBVIOUS
  <2>1. ASSUME UNCHANGED <<status, made, pc>> PROVE CreatedInv'
    BY <2>1 DEF CreatedInv, PlacesOK, CreatedOnce, Creating
  <2>2. ASSUME NEW c \in Call, Begin(c) PROVE CreatedInv'
    BY <2>2 DEF Begin, CreatedInv, PlacesOK, CreatedOnce, Creating, Places
  <2>3. ASSUME NEW c \in Call, RunCheck(c) PROVE CreatedInv'
    BY <2>3, WaitStep DEF RunCheck
  <2>4. ASSUME NEW c \in Call, RunWoken(c) PROVE CreatedInv'
    BY <2>4, WaitStep DEF RunWoken
  <2>5. ASSUME NEW c \in Call, NEW ok \in BOOLEAN, CreationEnds(c, ok) PROVE CreatedInv'
    BY <2>5 DEF CreationEnds, CreatedInv, PlacesOK, CreatedOnce, Creating, Places
  <2>6. ASSUME NEW c \in Call, RunCreated(c) PROVE CreatedInv'
    <3>1. Creating(c) /\ status = "in progress"
      BY <2>6 DEF RunCreated, CreatedInv, CreatedOnce, Creating
    <3>1a. made = 0
      BY <3>1 DEF CreatedInv, CreatedOnce
    <3>2. \A d \in Call : ~Creating(d)'
      BY <2>6, <3>1 DEF RunCreated, CreatedInv, PlacesOK, CreatedOnce, Creating
    <3>3a. ASSUME pc[c] = "created"
           PROVE  status' = "ready" /\ made' = 1 /\ pc' = [pc EXCEPT ![c] = "done"]
      <4>1. status' = "ready" /\ made' = made + 1 /\ pc' = [pc EXCEPT ![c] = "done"]
        BY <2>6, <3>3a DEF RunCreated
      <4>2. made + 1 = 1
        BY <3>1a
      <4> QED
        BY <4>1, <4>2
    <3>3b. ASSUME pc[c] = "failed"
           PROVE  status' = "not created" /\ made' = 0 /\ pc' = [pc EXCEPT ![c] = "raised"]
      BY <2>6, <3>1a, <3>3b DEF RunCreated
    <3>3c. pc[c] = "created" \/ pc[c] = "failed"
      BY <2>6 DEF RunCreated
    <3>3. \/ status' = "ready" /\ made' = 1
          \/ status' = "not created" /\ made' = 0
      BY <3>3a, <3>3b, <3>3c
    <3>4. pc' \in [Call -> Places]
      BY <3>3a, <3>3b, <3>3c DEF CreatedInv, PlacesOK, Places
    <3>5. made' = 0 \/ made' = 1
      BY <3>3, Zenon
    <3>5a. made' \in Nat
      BY <3>5
    <3>6. status' \in {"not created", "in progress", "ready"}
      BY <3>3
    <3>7. PlacesOK'
      BY <3>4, <3>5a, <3>6 DEF PlacesOK
    <3> QED
      BY <3>2, <3>3, <3>7 DEF CreatedInv, CreatedOnce
  <2>7. ASSUME NEW c \in Call, RunSpawn(c) \/ RunWait(c) \/ RunHop(c) PROVE CreatedInv'
    BY <2>1, <2>7 DEF RunSpawn, RunWait, RunHop
  <2>8. CASE RunSet \/ RunClear
    BY <2>1, <2>8 DEF RunSet, RunClear
  <2>9. CASE UNCHANGED vars
    BY <2>1, <2>9 DEF vars
  <2> QED
    BY <2>2, <2>3, <2>4, <2>5, <2>6, <2>7, <2>8, <2>9 DEF Next, LoopStep
<1>3. CreatedInv => CreatedOnce
  BY DEF CreatedInv
<1> QED
  BY <1>1, <1>2, <1>3, PTL DEF Spec

-----------------------------------------------------------------------------
(* Fault points.                                                           *)

\* fp_state_init().
LEMMA NewStateFields ==
  ASSUME NEW p \in Point
  PROVE  LET s == Faults!NewState(p) IN
         /\ s \in Faults!States
         /\ s.id = p /\ s.fp = Null /\ s.type = Null /\ s.once = FALSE
BY DEF Faults!NewState, Faults!States

\* A table whose new states come after the old ones, and belong to a point that
\* had none.
LEMMA FindGrows ==
  ASSUME given' = given, Faults!FaultInv, NEW t \in Thread, NEW p \in Point, NEW o,
         Faults!Find(t, p, o)
  PROVE  /\ table' \in Seq(Faults!States) /\ Faults!Unique'
         /\ Len(table') >= Len(table) /\ \A j \in 1..Len(table) : table'[j] = table[j]
         /\ \A j \in 1..Len(table') : j \in 1..Len(table) \/ table'[j] = Faults!NewState(p)
         /\ \A j \in 1..Len(table') : j \notin 1..Len(table) => Faults!Found(p) = {}
         /\ size' \in Nat /\ freed' \in BOOLEAN
         /\ \E k \in 1..Len(table') : /\ fcall' = [fcall EXCEPT ![t] = [op |-> o, point |-> p, state |-> k]]
                                      /\ table'[k].id = p
<1>1. /\ table \in Seq(Faults!States) /\ size \in Nat /\ freed \in BOOLEAN /\ Faults!Unique
  BY DEF Faults!FaultInv, Faults!TypeOK
<1>2. CASE Faults!Found(p) # {}
  <2>1. /\ UNCHANGED <<table, size, freed>>
        /\ fcall' = [fcall EXCEPT ![t] = [op |-> o, point |-> p, state |-> CHOOSE k \in Faults!Found(p) : TRUE]]
    BY <1>2 DEF Faults!Find, Faults!Goto
  <2> DEFINE k == CHOOSE k \in Faults!Found(p) : TRUE
  <2>2. k \in Faults!Found(p)
    BY <1>2
  <2>3. k \in 1..Len(table) /\ table[k].id = p
    BY <2>2 DEF Faults!Found
  <2> HIDE DEF k
  <2>4. Len(table) \in Nat
    BY <1>1
  <2>5. Faults!Unique'
    BY <1>1, <2>1 DEF Faults!Unique
  <2>6. k \in 1..Len(table') /\ table'[k].id = p
        /\ fcall' = [fcall EXCEPT ![t] = [op |-> o, point |-> p, state |-> k]]
    BY <2>1, <2>3 DEF k
  <2>7. Len(table') >= Len(table) /\ table' = table /\ size' = size /\ freed' = freed
    BY <2>1, <2>4
  <2> QED
    BY <1>1, <2>5, <2>6, <2>7
<1>3. CASE Faults!Found(p) = {}
  <2> DEFINE s == Faults!NewState(p)
  <2>1. /\ table' = Append(table, s)
        /\ fcall' = [fcall EXCEPT ![t] = [op |-> o, point |-> p, state |-> Len(table) + 1]]
        /\ size' \in Nat /\ freed' \in BOOLEAN
    BY <1>1, <1>3 DEF Faults!Find, Faults!Goto, Faults!Grow
  <2>2. s \in Faults!States /\ s.id = p
    BY NewStateFields
  <2> HIDE DEF s
  <2> DEFINE n == Len(table)
  <2>3. /\ n \in Nat /\ table' \in Seq(Faults!States) /\ Len(table') = n + 1 /\ table'[n + 1] = s
        /\ \A j \in 1..n : table'[j] = table[j]
    BY <1>1, <2>1, <2>2
  <2>4. \A j \in 1..n : table[j].id # p
    BY <1>3 DEF Faults!Found
  <2>5. Faults!Unique'
    <3>1. SUFFICES ASSUME NEW i \in 1..n + 1, NEW j \in 1..n + 1, table'[i].id = table'[j].id PROVE i = j
      BY <2>3 DEF Faults!Unique
    <3>2. CASE i \in 1..n /\ j \in 1..n
      BY <1>1, <2>3, <3>1, <3>2 DEF Faults!Unique
    <3>3. CASE i = n + 1 /\ j \in 1..n
      BY <2>2, <2>3, <2>4, <3>1, <3>3
    <3>4. CASE j = n + 1 /\ i \in 1..n
      BY <2>2, <2>3, <2>4, <3>1, <3>4
    <3> HIDE DEF n
    <3>5. i \in 1..n \/ i = n + 1
      BY <2>3
    <3>6. j \in 1..n \/ j = n + 1
      BY <2>3
    <3> QED
      BY <3>2, <3>3, <3>4, <3>5, <3>6
  <2> HIDE DEF n
  <2>6. \A j \in 1..n + 1 : j \in 1..n \/ j = n + 1
    BY <2>3
  <2>7. n + 1 >= n /\ n + 1 \in 1..n + 1
    BY <2>3
  <2>8. \A j \in 1..Len(table') : j \in 1..Len(table) \/ table'[j] = s
    BY <2>3, <2>6 DEF n
  <2>9. n + 1 \in 1..Len(table') /\ table'[n + 1].id = p
    BY <2>2, <2>3, <2>7
  <2> QED
    BY <1>3, <2>1, <2>3, <2>5, <2>7, <2>8, <2>9 DEF n, s
<1> QED
  BY <1>2, <1>3

\* Writing the state k of its own point.
LEMMA TableUpdated ==
  ASSUME given' = given, Faults!FaultInv, NEW k \in 1..Len(table), NEW s \in Faults!States,
         table' = [table EXCEPT ![k] = s], s.id = table[k].id
  PROVE  /\ table' \in Seq(Faults!States) /\ Faults!Unique' /\ Len(table') = Len(table)
         /\ table'[k] = s /\ \A j \in 1..Len(table) : j # k => table'[j] = table[j]
         /\ \A j \in 1..Len(table) : table'[j].id = table[j].id
<1>1. table \in Seq(Faults!States) /\ Faults!Unique
  BY DEF Faults!FaultInv, Faults!TypeOK
<1>2. /\ table' \in Seq(Faults!States) /\ Len(table') = Len(table)
      /\ table'[k] = s /\ \A j \in 1..Len(table) : j # k => table'[j] = table[j]
  BY <1>1
<1>3. \A j \in 1..Len(table) : table'[j].id = table[j].id
  BY <1>2
<1>4. Faults!Unique'
  BY <1>1, <1>2, <1>3 DEF Faults!Unique
<1> QED
  BY <1>2, <1>3, <1>4

\* The record of a call.
LEMMA CallFields ==
  ASSUME NEW t \in Thread, NEW o \in {"idle"} \cup Faults!Locating \cup Faults!Located,
         NEW p \in Point \cup {Null}, NEW k \in Nat,
         fcall \in [Thread -> Faults!Calls],
         fcall' = [fcall EXCEPT ![t] = [op |-> o, point |-> p, state |-> k]]
  PROVE  /\ fcall' \in [Thread -> Faults!Calls]
         /\ fcall'[t].op = o /\ fcall'[t].point = p /\ fcall'[t].state = k
         /\ \A u \in Thread : u # t => fcall'[u] = fcall[u]
<1> DEFINE c == [op |-> o, point |-> p, state |-> k]
<1>1. c \in Faults!Calls
  BY DEF Faults!Calls
<1>2. c.op = o /\ c.point = p /\ c.state = k
  OBVIOUS
<1> HIDE DEF c
<1>3. fcall' = [fcall EXCEPT ![t] = c]
  BY DEF c
<1> QED
  BY <1>1, <1>2, <1>3

\* What no step but a registration disturbs: the states and the points, as long
\* as they keep type, what they noted and what they fired.
LEMMA StatesStay ==
  ASSUME given' = given, Faults!FaultInv,
         table' = table, known' = known, fired' = fired, cleaned' = cleaned
  PROVE  /\ Faults!Unique' /\ \A k \in 1..Len(table') : Faults!StateInv(table[k])'
         /\ \A p \in Point : Faults!PointInv(p)'
<1>1. Faults!Unique' /\ \A k \in 1..Len(table') : Faults!StateInv(table[k])'
  BY DEF Faults!FaultInv, Faults!Unique, Faults!StateInv
<1>2. ASSUME NEW p \in Point PROVE Faults!PointInv(p)'
  <2>1. Faults!PointInv(p)
    BY DEF Faults!FaultInv
  <2> QED
    BY <2>1 DEF Faults!PointInv, Faults!InWindow, Faults!Found
<1> QED
  BY <1>1, <1>2

\* Another call keeps its place while the table keeps the ids of its states.
LEMMA OtherCall ==
  ASSUME given' = given, NEW u \in Thread, Faults!CallInv(u), fcall'[u] = fcall[u],
         Len(table) \in Nat, Len(table') \in Nat, Len(table') >= Len(table),
         \A j \in 1..Len(table) : table'[j].id = table[j].id,
         \A p \in Point : known[p] => known'[p]
  PROVE  Faults!CallInv(u)'
<1> DEFINE c == fcall[u]
<1>1. /\ c.op # "idle" => c.point \in Point
      /\ c.state = 0 <=> c.op \notin Faults!Located
      /\ c.op \in Faults!Located => c.state \in 1..Len(table) /\ table[c.state].id = c.point
      /\ c.op \in {"enabled", "hit"} => known[c.point]
  BY DEF Faults!CallInv
<1>2. c.op \in {"enabled", "hit"} => known'[c.point]
  BY <1>1
<1>3. c.op \in Faults!Located => c.state \in 1..Len(table') /\ table'[c.state].id = c.point
  BY <1>1
<1> QED
  BY <1>1, <1>2, <1>3 DEF Faults!CallInv

\* fault_enable(), fault_disable() and the first half of FP_ENABLED(): a call
\* begins.
LEMMA CallBegins ==
  ASSUME given' = given, Faults!FaultInv,
         NEW t \in Thread, NEW p \in Point, NEW o \in Faults!Locating,
         fcall' = [fcall EXCEPT ![t] = [op |-> o, point |-> p, state |-> 0]],
         UNCHANGED <<table, size, freed, known, fired, aborted, cleaned>>,
         o = "enabled" => known[p],
         o = "register" => ~known[p] /\ \A u \in Thread : ~Faults!Registers(u, p)
  PROVE  Faults!FaultInv'
<1>1. Faults!TypeOK /\ fcall \in [Thread -> Faults!Calls]
  BY DEF Faults!FaultInv, Faults!TypeOK
<1>2. /\ fcall' \in [Thread -> Faults!Calls]
      /\ fcall'[t].op = o /\ fcall'[t].point = p /\ fcall'[t].state = 0
      /\ \A u \in Thread : u # t => fcall'[u] = fcall[u]
  BY <1>1, CallFields
<1>3. Faults!TypeOK'
  BY <1>1, <1>2 DEF Faults!TypeOK
<1>4. ASSUME NEW u \in Thread PROVE Faults!CallInv(u)'
  <2>1. CASE u = t
    BY <1>2, <2>1 DEF Faults!CallInv, Faults!Located, Faults!Locating
  <2>2. CASE u # t
    BY <1>2, <2>2 DEF Faults!CallInv, Faults!FaultInv
  <2> QED
    BY <2>1, <2>2
<1>5. ASSUME NEW u \in Thread, NEW x \in Point PROVE Faults!RegisterInv(u, x)'
  <2>1. \A v \in Thread : Faults!Registers(v, x)' => Faults!Registers(v, x) \/ (v = t /\ o = "register" /\ x = p)
    BY <1>2 DEF Faults!Registers, Faults!Locating
  <2>2. \A v \in Thread : Faults!RegisterInv(v, x)
    BY DEF Faults!FaultInv
  <2> QED
    BY <2>1, <2>2 DEF Faults!RegisterInv
<1> QED
  BY <1>3, <1>4, <1>5, StatesStay DEF Faults!FaultInv

\* fp_state_find(): the state found is that of the point, and one that is made
\* for it has not fired.
LEMMA FindKeeps ==
  ASSUME given' = given, Faults!FaultInv, NEW t \in Thread, Faults!FindState(t)
  PROVE  Faults!FaultInv'
<1> DEFINE p == fcall[t].point
<1>1. /\ Faults!TypeOK /\ fcall \in [Thread -> Faults!Calls] /\ table \in Seq(Faults!States)
      /\ Faults!CallInv(t)
  BY DEF Faults!FaultInv, Faults!TypeOK
<1>2. UNCHANGED <<known, fired, aborted, cleaned>>
  BY DEF Faults!FindState
<1>3. PICK o \in Faults!Located :
        /\ Faults!Find(t, p, o)
        /\ \/ fcall[t].op = "register" /\ o = "attach"
           \/ fcall[t].op = "enabled" /\ o = "hit"
           \/ fcall[t].op = "enable" /\ o = "on"
           \/ fcall[t].op = "disable" /\ o = "off"
  BY DEF Faults!FindState, Faults!Located
<1>4. p \in Point
  BY <1>1, <1>3 DEF Faults!CallInv
<1>5. /\ table' \in Seq(Faults!States) /\ Faults!Unique'
      /\ Len(table') >= Len(table) /\ \A j \in 1..Len(table) : table'[j] = table[j]
      /\ \A j \in 1..Len(table') : j \in 1..Len(table) \/ table'[j] = Faults!NewState(p)
      /\ \A j \in 1..Len(table') : j \notin 1..Len(table) => Faults!Found(p) = {}
      /\ size' \in Nat /\ freed' \in BOOLEAN
  BY <1>3, <1>4, FindGrows
<1>6. PICK k \in 1..Len(table') : /\ fcall' = [fcall EXCEPT ![t] = [op |-> o, point |-> p, state |-> k]]
                                  /\ table'[k].id = p
  BY <1>3, <1>4, FindGrows
<1>7. Len(table) \in Nat /\ Len(table') \in Nat /\ k \in Nat /\ k # 0
  BY <1>1, <1>5
<1>8. /\ fcall' \in [Thread -> Faults!Calls]
      /\ fcall'[t].op = o /\ fcall'[t].point = p /\ fcall'[t].state = k
      /\ \A u \in Thread : u # t => fcall'[u] = fcall[u]
  BY <1>1, <1>3, <1>4, <1>6, <1>7, CallFields
<1>9. Faults!TypeOK'
  BY <1>1, <1>2, <1>5, <1>8 DEF Faults!TypeOK
<1>10. ASSUME NEW j \in 1..Len(table') PROVE Faults!StateInv(table[j])'
  <2>1. CASE j \in 1..Len(table)
    <3>1. Faults!StateInv(table[j]) /\ table'[j] = table[j]
      BY <1>5, <2>1 DEF Faults!FaultInv
    <3> QED
      BY <1>2, <3>1 DEF Faults!StateInv
  <2>2. CASE j \notin 1..Len(table)
    <3>1. table'[j] = Faults!NewState(p) /\ Faults!Found(p) = {}
      BY <1>5, <2>2
    <3>2. fired[p] = {}
      BY <1>4, <3>1 DEF Faults!FaultInv, Faults!PointInv, Faults!InWindow
    <3>3. table'[j].id = p /\ table'[j].fp = Null /\ table'[j].type = Null
      BY <1>4, <3>1, NewStateFields
    <3> QED
      BY <1>2, <3>2, <3>3 DEF Faults!StateInv
  <2> QED
    BY <2>1, <2>2
<1>11. ASSUME NEW x \in Point PROVE Faults!PointInv(x)'
  <2>1. Faults!PointInv(x)
    BY DEF Faults!FaultInv
  <2>2. \A j \in 1..Len(table) : j \in 1..Len(table')
    BY <1>5, <1>7
  <2>3. Faults!Found(x) # {} => Faults!Found(x)' # {}
    BY <1>5, <2>2 DEF Faults!Found
  <2>4. (\E j \in 1..Len(table) : table[j].id = x /\ table[j].type # Null)
          => \E j \in 1..Len(table') : table'[j].id = x /\ table'[j].type # Null
    BY <1>5, <2>2
  <2> QED
    BY <1>2, <2>1, <2>3, <2>4 DEF Faults!PointInv, Faults!InWindow
<1>12. ASSUME NEW u \in Thread PROVE Faults!CallInv(u)'
  <2>1. CASE u = t
    BY <1>1, <1>2, <1>3, <1>4, <1>6, <1>7, <1>8, <2>1 DEF Faults!CallInv, Faults!Located
  <2>2. CASE u # t
    <3>1. Faults!CallInv(u) /\ fcall'[u] = fcall[u]
      BY <1>8, <2>2 DEF Faults!FaultInv
    <3>2. \A j \in 1..Len(table) : table'[j].id = table[j].id
      BY <1>5
    <3> QED
      BY <1>2, <1>5, <1>7, <3>1, <3>2, OtherCall
  <2> QED
    BY <2>1, <2>2
<1>13. ASSUME NEW u \in Thread, NEW x \in Point PROVE Faults!RegisterInv(u, x)'
  <2>1. \A v \in Thread : Faults!Registers(v, x)' <=> Faults!Registers(v, x)
    BY <1>3, <1>8 DEF Faults!Registers
  <2>2. Faults!RegisterInv(u, x)
    BY DEF Faults!FaultInv
  <2> QED
    BY <1>2, <2>1, <2>2 DEF Faults!RegisterInv
<1>14. (aborted => cleaned)'
  BY <1>2 DEF Faults!FaultInv
<1> QED
  BY <1>5, <1>9, <1>10, <1>11, <1>12, <1>13, <1>14 DEF Faults!FaultInv

\* Writing a state whose id and type stay: the points that have a state with a
\* type keep it.
LEMMA PointsKept ==
  ASSUME given' = given, NEW x \in Point, Len(table') = Len(table),
         \A j \in 1..Len(table) : table'[j].id = table[j].id,
         \A j \in 1..Len(table) : table[j].type # Null => table'[j].type # Null
  PROVE  /\ Faults!Found(x)' = Faults!Found(x)
         /\ (\E j \in 1..Len(table) : table[j].id = x /\ table[j].type # Null)
              => \E j \in 1..Len(table') : table'[j].id = x /\ table'[j].type # Null
BY DEF Faults!Found

\* fp_state_enable() and fp_state_disable().
LEMMA SwitchKeeps ==
  ASSUME given' = given, Faults!FaultInv, NEW t \in Thread, Faults!SetEnabled(t)
  PROVE  Faults!FaultInv'
<1> DEFINE k == fcall[t].state  b == (fcall[t].op = "on")  s == [table[k] EXCEPT !.on = b]
<1>1. /\ Faults!TypeOK /\ fcall \in [Thread -> Faults!Calls] /\ table \in Seq(Faults!States)
      /\ Faults!CallInv(t) /\ fcall[t].op \in {"on", "off"}
  BY DEF Faults!FaultInv, Faults!TypeOK, Faults!SetEnabled
<1>2. /\ UNCHANGED <<size, freed, known, fired, aborted, cleaned>>
      /\ fcall' = [fcall EXCEPT ![t] = [op |-> "idle", point |-> Null, state |-> 0]]
  BY DEF Faults!SetEnabled, Faults!Goto, Faults!NoCall
<1>3. k \in 1..Len(table)
  BY <1>1 DEF Faults!CallInv, Faults!Located
<1>4. table[k] \in Faults!States /\ b \in BOOLEAN
  BY <1>1, <1>3
<1>5. table' = [table EXCEPT ![k] = s]
  BY <1>3 DEF Faults!SetEnabled
<1> HIDE DEF b
<1>6. s \in Faults!States
  BY <1>4 DEF Faults!States
<1>7. /\ s.id = table[k].id /\ s.fp = table[k].fp /\ s.type = table[k].type /\ s.once = table[k].once
  BY <1>4 DEF Faults!States
<1> HIDE DEF s
<1>8. /\ table' \in Seq(Faults!States) /\ Faults!Unique' /\ Len(table') = Len(table)
      /\ table'[k] = s /\ \A j \in 1..Len(table) : j # k => table'[j] = table[j]
      /\ \A j \in 1..Len(table) : table'[j].id = table[j].id
  BY <1>3, <1>5, <1>6, <1>7, TableUpdated
<1>9. \A j \in 1..Len(table) : /\ table'[j].id = table[j].id /\ table'[j].fp = table[j].fp
                               /\ table'[j].type = table[j].type /\ table'[j].once = table[j].once
  BY <1>3, <1>7, <1>8
<1>10. /\ fcall' \in [Thread -> Faults!Calls]
       /\ fcall'[t].op = "idle" /\ fcall'[t].point = Null /\ fcall'[t].state = 0
       /\ \A u \in Thread : u # t => fcall'[u] = fcall[u]
  BY <1>1, <1>2, CallFields
<1>11. Faults!TypeOK'
  BY <1>1, <1>2, <1>8, <1>10 DEF Faults!TypeOK
<1>12. ASSUME NEW j \in 1..Len(table') PROVE Faults!StateInv(table[j])'
  <2>1. Faults!StateInv(table[j]) /\ j \in 1..Len(table)
    BY <1>8 DEF Faults!FaultInv
  <2> QED
    BY <1>2, <1>9, <2>1 DEF Faults!StateInv
<1>13. ASSUME NEW x \in Point PROVE Faults!PointInv(x)'
  <2>1. Faults!PointInv(x)
    BY DEF Faults!FaultInv
  <2> QED
    BY <1>2, <1>8, <1>9, <2>1, PointsKept DEF Faults!PointInv, Faults!InWindow
<1>14. ASSUME NEW u \in Thread PROVE Faults!CallInv(u)'
  <2>1. CASE u = t
    BY <1>10, <2>1 DEF Faults!CallInv, Faults!Located
  <2>2. CASE u # t
    <3>1. Faults!CallInv(u) /\ fcall'[u] = fcall[u]
      BY <1>10, <2>2 DEF Faults!FaultInv
    <3>2. Len(table) \in Nat /\ Len(table') \in Nat /\ Len(table') >= Len(table)
      BY <1>1, <1>8
    <3> QED
      BY <1>2, <1>8, <3>1, <3>2, OtherCall
  <2> QED
    BY <2>1, <2>2
<1>15. ASSUME NEW u \in Thread, NEW x \in Point PROVE Faults!RegisterInv(u, x)'
  <2>1. \A v \in Thread : Faults!Registers(v, x)' => Faults!Registers(v, x)
    BY <1>10 DEF Faults!Registers
  <2>2. Faults!RegisterInv(u, x)
    BY DEF Faults!FaultInv
  <2> QED
    BY <1>2, <2>1, <2>2 DEF Faults!RegisterInv
<1>16. (aborted => cleaned)'
  BY <1>2 DEF Faults!FaultInv
<1> QED
  BY <1>8, <1>11, <1>12, <1>13, <1>14, <1>15, <1>16 DEF Faults!FaultInv

\* fault_register(): only the first run of the site registers it, so that the
\* assert on fps_fp holds.
LEMMA AttachKeeps ==
  ASSUME given' = given, Faults!FaultInv, NEW t \in Thread, Faults!Attach(t)
  PROVE  Faults!FaultInv'
<1> DEFINE k == fcall[t].state  p == fcall[t].point  y == given[p].type
           s == [table[k] EXCEPT !.type = y, !.hits = 0, !.once = FALSE, !.fp = p]
<1>1. /\ Faults!TypeOK /\ fcall \in [Thread -> Faults!Calls] /\ table \in Seq(Faults!States)
      /\ known \in [Point -> BOOLEAN] /\ fired \in [Point -> SUBSET Nat]
      /\ Faults!CallInv(t) /\ Faults!Unique /\ fcall[t].op = "attach"
  BY DEF Faults!FaultInv, Faults!TypeOK, Faults!Attach
<1>2. k \in 1..Len(table) /\ table[k].id = p /\ p \in Point
  BY <1>1 DEF Faults!CallInv, Faults!Located
<1>3. Faults!Registers(t, p) /\ Faults!RegisterInv(t, p)
  BY <1>1, <1>2 DEF Faults!Registers, Faults!FaultInv
<1>4. ~known[p] /\ \A u \in Thread : Faults!Registers(u, p) => u = t
  BY <1>3 DEF Faults!RegisterInv
<1>5. Faults!StateInv(table[k])
  BY <1>2 DEF Faults!FaultInv
<1>6. table[k].fp = Null
  BY <1>2, <1>4, <1>5 DEF Faults!StateInv
<1>7. /\ aborted' = FALSE
      /\ table' = [table EXCEPT ![k] = s]
      /\ known' = [known EXCEPT ![p] = TRUE] /\ fired' = [fired EXCEPT ![p] = {}]
      /\ fcall' = [fcall EXCEPT ![t] = [op |-> "enabled", point |-> p, state |-> 0]]
      /\ UNCHANGED <<size, freed, cleaned>>
  BY <1>2, <1>6 DEF Faults!Attach, Faults!Goto
<1>8. table[k] \in Faults!States /\ y \in Faults!Types /\ y # Null
  <2>1. given \in FaultSpecs
    BY DEF Faults!FaultInv, Faults!TypeOK
  <2> QED
    BY <1>1, <1>2, <2>1, FaultAssumption DEF Faults!Types
<1>9. s \in Faults!States
  BY <1>2, <1>8 DEF Faults!States
<1>10. s.id = table[k].id /\ s.fp = p /\ s.type = y /\ s.once = FALSE
  BY <1>8 DEF Faults!States
<1> HIDE DEF s
<1>11. /\ table' \in Seq(Faults!States) /\ Faults!Unique' /\ Len(table') = Len(table)
       /\ table'[k] = s /\ \A j \in 1..Len(table) : j # k => table'[j] = table[j]
       /\ \A j \in 1..Len(table) : table'[j].id = table[j].id
  BY <1>2, <1>7, <1>9, <1>10, TableUpdated
<1>12. /\ fcall' \in [Thread -> Faults!Calls]
       /\ fcall'[t].op = "enabled" /\ fcall'[t].point = p /\ fcall'[t].state = 0
       /\ \A u \in Thread : u # t => fcall'[u] = fcall[u]
  BY <1>1, <1>2, <1>7, CallFields DEF Faults!Locating
<1>13. /\ known' \in [Point -> BOOLEAN] /\ known'[p] /\ \A x \in Point : x # p => known'[x] = known[x]
       /\ fired' \in [Point -> SUBSET Nat] /\ fired'[p] = {}
       /\ \A x \in Point : x # p => fired'[x] = fired[x]
  BY <1>1, <1>2, <1>7
<1>14. Faults!TypeOK'
  BY <1>1, <1>7, <1>11, <1>12, <1>13 DEF Faults!TypeOK
<1>15. ASSUME NEW j \in 1..Len(table') PROVE Faults!StateInv(table[j])'
  <2>1. CASE j = k
    BY <1>2, <1>10, <1>11, <1>13, <2>1 DEF Faults!StateInv
  <2>2. CASE j # k
    <3>1. j \in 1..Len(table) /\ table[j].id # p
      BY <1>1, <1>2, <1>11, <2>2 DEF Faults!Unique
    <3>2. Faults!StateInv(table[j]) /\ table'[j] = table[j] /\ table[j].id \in Point
      <4>1. table[j] \in Faults!States
        BY <1>1, <3>1
      <4> QED
        BY <1>11, <2>2, <3>1, <4>1 DEF Faults!FaultInv, Faults!States
    <3>3. known'[table[j].id] = known[table[j].id] /\ fired'[table[j].id] = fired[table[j].id]
      BY <1>13, <3>1, <3>2
    <3> QED
      BY <3>2, <3>3 DEF Faults!StateInv
  <2> QED
    BY <2>1, <2>2
<1>16. ASSUME NEW x \in Point PROVE Faults!PointInv(x)'
  <2>1. Faults!PointInv(x)
    BY DEF Faults!FaultInv
  <2>2. \A j \in 1..Len(table) : table[j].type # Null => table'[j].type # Null
    BY <1>8, <1>10, <1>11
  <2>3. /\ Faults!Found(x)' = Faults!Found(x)
        /\ (\E j \in 1..Len(table) : table[j].id = x /\ table[j].type # Null)
             => \E j \in 1..Len(table') : table'[j].id = x /\ table'[j].type # Null
    BY <1>11, <2>2, PointsKept
  <2>4. CASE x = p
    <3>1. \E j \in 1..Len(table') : table'[j].id = x /\ table'[j].type # Null
      BY <1>2, <1>8, <1>10, <1>11, <2>4
    <3> QED
      BY <1>13, <2>4, <3>1 DEF Faults!PointInv, Faults!InWindow
  <2>5. CASE x # p
    <3>1. known'[x] = known[x] /\ fired'[x] = fired[x] /\ cleaned' = cleaned
      BY <1>7, <1>13, <2>5
    <3> QED
      BY <2>1, <2>3, <3>1 DEF Faults!PointInv, Faults!InWindow
  <2> QED
    BY <2>4, <2>5
<1>17. ASSUME NEW u \in Thread PROVE Faults!CallInv(u)'
  <2>1. CASE u = t
    BY <1>2, <1>12, <1>13, <2>1 DEF Faults!CallInv, Faults!Located
  <2>2. CASE u # t
    <3>1. Faults!CallInv(u) /\ fcall'[u] = fcall[u]
      BY <1>12, <2>2 DEF Faults!FaultInv
    <3>2. Len(table) \in Nat /\ Len(table') \in Nat /\ Len(table') >= Len(table)
      BY <1>1, <1>11
    <3>3. \A x \in Point : known[x] => known'[x]
      BY <1>13
    <3> QED
      BY <1>11, <3>1, <3>2, <3>3, OtherCall
  <2> QED
    BY <2>1, <2>2
<1>18. ASSUME NEW u \in Thread, NEW x \in Point PROVE Faults!RegisterInv(u, x)'
  <2>1. \A v \in Thread : Faults!Registers(v, x)' => Faults!Registers(v, x) /\ x # p
    BY <1>4, <1>12 DEF Faults!Registers
  <2>2. Faults!RegisterInv(u, x)
    BY DEF Faults!FaultInv
  <2> QED
    BY <1>13, <2>1, <2>2 DEF Faults!RegisterInv
<1> QED
  BY <1>7, <1>11, <1>14, <1>15, <1>16, <1>17, <1>18 DEF Faults!FaultInv

\* The handlers of fault_spec_table: what a trigger tells about the state.
LEMMA HandlerResult ==
  ASSUME NEW s \in Faults!States, NEW p \in Point, s.type = given[p].type,
         NEW b \in Faults!Triggers(s, p)
  PROVE  /\ b \in BOOLEAN
         /\ b /\ s.type = "once" => ~s.once
         /\ b /\ s.type = "repeat" => Faults!InWindow(p, s.hits)
         /\ b /\ s.type = "skip" => ~Faults!InWindow(p, s.hits)
<1> DEFINE w == Faults!InWindow(p, s.hits)  g == s.hits >= given[p].start
<1>1. w \in BOOLEAN /\ g \in BOOLEAN
  BY DEF Faults!InWindow
<1>2. Faults!Triggers(s, p) =
        CASE s.type = "once"   -> {g /\ ~s.once}
          [] s.type = "always" -> {g}
          [] s.type = "repeat" -> {w}
          [] s.type = "skip"   -> {~w}
          [] s.type = "delay"  -> {TRUE}
          [] OTHER             -> BOOLEAN
  BY DEF Faults!Triggers
<1> HIDE DEF w, g
<1>3. CASE s.type = "once"
  <2>1. b = (g /\ ~s.once)
    BY <1>2, <1>3
  <2> QED
    BY <1>3, <2>1
<1>4. CASE s.type = "repeat"
  <2>1. b = w
    BY <1>2, <1>4
  <2> QED
    BY <1>1, <1>4, <2>1 DEF w
<1>5. CASE s.type = "skip"
  <2>1. b = (~w)
    BY <1>2, <1>5
  <2> QED
    BY <1>1, <1>5, <2>1 DEF w
<1>6. CASE s.type \notin {"once", "repeat", "skip"}
  <2>1. b \in BOOLEAN
    BY <1>1, <1>2, <1>6
  <2> QED
    BY <1>6, <2>1
<1> QED
  BY <1>3, <1>4, <1>5, <1>6

\* fault_enabled(): a hit.
LEMMA HitKeeps ==
  ASSUME given' = given, Faults!FaultInv, NEW t \in Thread, Faults!FaultEnabled(t)
  PROVE  Faults!FaultInv'
<1> DEFINE k == fcall[t].state  p == fcall[t].point  s == [table[k] EXCEPT !.hits = @ + 1]
<1>1. /\ Faults!TypeOK /\ fcall \in [Thread -> Faults!Calls] /\ table \in Seq(Faults!States)
      /\ known \in [Point -> BOOLEAN] /\ fired \in [Point -> SUBSET Nat]
      /\ Faults!CallInv(t) /\ Faults!Unique /\ fcall[t].op = "hit"
  BY DEF Faults!FaultInv, Faults!TypeOK, Faults!FaultEnabled, Faults!HitWith
<1>2. k \in 1..Len(table) /\ table[k].id = p /\ p \in Point /\ known[p]
  BY <1>1 DEF Faults!CallInv, Faults!Located
<1>3. Faults!StateInv(table[k]) /\ Faults!PointInv(p) /\ table[k] \in Faults!States
  BY <1>1, <1>2 DEF Faults!FaultInv
<1>4. table[k].type \in {Null, given[p].type}
  BY <1>2, <1>3 DEF Faults!StateInv
<1>5. s \in Faults!States
  BY <1>3 DEF Faults!States
<1>6. /\ s.id = p /\ s.fp = table[k].fp /\ s.type = table[k].type /\ s.once = table[k].once
      /\ s.on = table[k].on /\ s.hits \in Nat
  BY <1>2, <1>3, <1>5 DEF Faults!States
<1>7. PICK b \in IF s.on /\ s.type # Null THEN Faults!Triggers(s, p) ELSE {FALSE} :
        /\ table' = [table EXCEPT ![k] = [s EXCEPT !.once = @ \/ (TRUE /\ s.type = "once" /\ b)]]
        /\ fired' = [fired EXCEPT ![p] = IF b THEN @ \cup {s.hits} ELSE @]
  BY DEF Faults!FaultEnabled, Faults!HitWith
<1>8. /\ aborted' = (s.on /\ s.type = Null) /\ UNCHANGED <<size, freed, known, cleaned>>
      /\ fcall' = [fcall EXCEPT ![t] = [op |-> "idle", point |-> Null, state |-> 0]]
  BY DEF Faults!FaultEnabled, Faults!HitWith, Faults!Goto, Faults!NoCall
<1> HIDE DEF s
<1>9. /\ b \in BOOLEAN
      /\ b => s.type # Null /\ s.type = given[p].type
      /\ b /\ s.type = "once" => ~s.once
      /\ b /\ s.type = "repeat" => Faults!InWindow(p, s.hits)
      /\ b /\ s.type = "skip" => ~Faults!InWindow(p, s.hits)
  <2>1. CASE s.on /\ s.type # Null
    <3>1. b \in Faults!Triggers(s, p) /\ s.type = given[p].type
      BY <1>4, <1>6, <1>7, <2>1
    <3> QED
      BY <1>2, <1>5, <2>1, <3>1, HandlerResult
  <2>2. CASE ~(s.on /\ s.type # Null)
    <3>1. b = FALSE
      BY <1>7, <2>2
    <3> QED
      BY <3>1
  <2> QED
    BY <2>1, <2>2
<1> DEFINE noted == s.once \/ (TRUE /\ s.type = "once" /\ b)
           new == [s EXCEPT !.once = noted]
<1>10. table' = [table EXCEPT ![k] = new]
  BY <1>7
<1>11. noted \in BOOLEAN
  BY <1>5, <1>9 DEF Faults!States
<1>12. noted <=> s.once \/ (s.type = "once" /\ b)
  OBVIOUS
<1> HIDE DEF noted
<1>13. new \in Faults!States
  BY <1>5, <1>11 DEF Faults!States
<1>14. new.id = p /\ new.fp = table[k].fp /\ new.type = table[k].type /\ new.once = noted
  BY <1>5, <1>6 DEF Faults!States
<1> HIDE DEF new
<1>15. /\ table' \in Seq(Faults!States) /\ Faults!Unique' /\ Len(table') = Len(table)
       /\ table'[k] = new /\ \A j \in 1..Len(table) : j # k => table'[j] = table[j]
       /\ \A j \in 1..Len(table) : table'[j].id = table[j].id
  BY <1>2, <1>10, <1>13, <1>14, TableUpdated
<1>16. /\ fcall' \in [Thread -> Faults!Calls]
       /\ fcall'[t].op = "idle" /\ fcall'[t].point = Null /\ fcall'[t].state = 0
       /\ \A u \in Thread : u # t => fcall'[u] = fcall[u]
  BY <1>1, <1>8, CallFields
<1>17. /\ fired' \in [Point -> SUBSET Nat] /\ \A x \in Point : x # p => fired'[x] = fired[x]
       /\ fired'[p] = IF b THEN fired[p] \cup {s.hits} ELSE fired[p]
  BY <1>1, <1>2, <1>6, <1>7
<1>18. (aborted => cleaned)'
  <2>1. ASSUME ~cleaned PROVE table[k].type # Null
    <3>1. PICK j \in 1..Len(table) : table[j].id = p /\ table[j].type # Null
      BY <1>2, <1>3, <2>1 DEF Faults!PointInv, Faults!InWindow
    <3>2. j = k
      BY <1>1, <1>2, <3>1 DEF Faults!Unique
    <3> QED
      BY <3>1, <3>2
  <2> QED
    BY <1>6, <1>8, <2>1
<1>19. Faults!TypeOK'
  <2>1. aborted' \in BOOLEAN
    BY <1>5, <1>8 DEF Faults!States
  <2> QED
    BY <1>1, <1>8, <1>15, <1>16, <1>17, <2>1 DEF Faults!TypeOK
<1>20. ASSUME NEW j \in 1..Len(table') PROVE Faults!StateInv(table[j])'
  <2>1. CASE j = k
    <3>1. table'[j].id = p /\ table'[j].fp = table[k].fp /\ table'[j].type = table[k].type
          /\ (table'[j].once <=> noted)
      BY <1>14, <1>15, <2>1
    <3>2. table[k].type = Null => fired'[p] = {}
      BY <1>2, <1>3, <1>6, <1>9, <1>17 DEF Faults!StateInv
    <3>3. given[p].type = "once" /\ ~noted => fired'[p] = {}
      BY <1>2, <1>3, <1>6, <1>9, <1>12, <1>17 DEF Faults!StateInv
    <3>4. table[k].fp # Null => known'[p]
      BY <1>2, <1>3, <1>8 DEF Faults!StateInv
    <3> QED
      BY <1>4, <3>1, <3>2, <3>3, <3>4 DEF Faults!StateInv
  <2>2. CASE j # k
    <3>1. j \in 1..Len(table) /\ table[j].id # p
      BY <1>1, <1>2, <1>15, <2>2 DEF Faults!Unique
    <3>2. Faults!StateInv(table[j]) /\ table'[j] = table[j] /\ table[j].id \in Point
      <4>1. table[j] \in Faults!States
        BY <1>1, <3>1
      <4> QED
        BY <1>15, <2>2, <3>1, <4>1 DEF Faults!FaultInv, Faults!States
    <3>3. known'[table[j].id] = known[table[j].id] /\ fired'[table[j].id] = fired[table[j].id]
      BY <1>8, <1>17, <3>1, <3>2
    <3> QED
      BY <3>2, <3>3 DEF Faults!StateInv
  <2> QED
    BY <2>1, <2>2
<1>21. ASSUME NEW x \in Point PROVE Faults!PointInv(x)'
  <2>1. Faults!PointInv(x)
    BY DEF Faults!FaultInv
  <2>2. \A j \in 1..Len(table) : table[j].type # Null => table'[j].type # Null
    BY <1>14, <1>15
  <2>3. /\ Faults!Found(x)' = Faults!Found(x)
        /\ (\E j \in 1..Len(table) : table[j].id = x /\ table[j].type # Null)
             => \E j \in 1..Len(table') : table'[j].id = x /\ table'[j].type # Null
    BY <1>15, <2>2, PointsKept
  <2>4. known'[x] = known[x] /\ cleaned' = cleaned
    BY <1>8
  <2>5. CASE x # p \/ ~b
    <3>1. fired'[x] = fired[x]
      BY <1>17, <2>5
    <3> QED
      BY <2>1, <2>3, <2>4, <3>1 DEF Faults!PointInv, Faults!InWindow
  <2>6. CASE x = p /\ b
    <3>1. fired'[x] = fired[x] \cup {s.hits} /\ s.type = given[x].type
      BY <1>9, <1>17, <2>6
    <3>2. k \in Faults!Found(x)
      BY <1>2, <2>6 DEF Faults!Found
    <3>3. given[x].type = "once" => fired[x] = {}
      BY <1>2, <1>3, <1>6, <1>9, <2>6, <3>1 DEF Faults!StateInv
    <3>4. given[x].type = "repeat" => Faults!InWindow(x, s.hits)
      BY <1>9, <2>6, <3>1
    <3>5. given[x].type = "skip" => ~Faults!InWindow(x, s.hits)
      BY <1>9, <2>6, <3>1
    <3>6. given[x].type = "once" => \A h, i \in fired'[x] : h = i
      BY <3>1, <3>3
    <3>7. given[x].type = "repeat" => \A h \in fired'[x] : Faults!InWindow(x, h)
      BY <2>1, <3>1, <3>4 DEF Faults!PointInv, Faults!InWindow
    <3>8. given[x].type = "skip" => \A h \in fired'[x] : ~Faults!InWindow(x, h)
      BY <2>1, <3>1, <3>5 DEF Faults!PointInv, Faults!InWindow
    <3>9. Faults!Found(x)' # {}
      BY <2>3, <3>2
    <3>10. known[x] /\ ~cleaned => \E j \in 1..Len(table') : table'[j].id = x /\ table'[j].type # Null
      BY <2>1, <2>3 DEF Faults!PointInv, Faults!InWindow
    <3> QED
      BY <2>4, <3>6, <3>7, <3>8, <3>9, <3>10 DEF Faults!PointInv, Faults!InWindow
  <2> QED
    BY <2>5, <2>6
<1>22. ASSUME NEW u \in Thread PROVE Faults!CallInv(u)'
  <2>1. CASE u = t
    BY <1>16, <2>1 DEF Faults!CallInv, Faults!Located
  <2>2. CASE u # t
    <3>1. Faults!CallInv(u) /\ fcall'[u] = fcall[u]
      BY <1>16, <2>2 DEF Faults!FaultInv
    <3>2. Len(table) \in Nat /\ Len(table') \in Nat /\ Len(table') >= Len(table)
      BY <1>1, <1>15
    <3> QED
      BY <1>8, <1>15, <3>1, <3>2, OtherCall
  <2> QED
    BY <2>1, <2>2
<1>23. ASSUME NEW u \in Thread, NEW x \in Point PROVE Faults!RegisterInv(u, x)'
  <2>1. \A v \in Thread : Faults!Registers(v, x)' => Faults!Registers(v, x)
    BY <1>16 DEF Faults!Registers
  <2>2. Faults!RegisterInv(u, x)
    BY DEF Faults!FaultInv
  <2> QED
    BY <1>8, <2>1, <2>2 DEF Faults!RegisterInv
<1> QED
  BY <1>15, <1>18, <1>19, <1>20, <1>21, <1>22, <1>23 DEF Faults!FaultInv

\* fault_cleanup() between two calls: an empty table, and sites that stay known.
LEMMA CleanupKeeps ==
  ASSUME given' = given, Faults!FaultInv, Faults!Cleanup
  PROVE  Faults!FaultInv'
<1>1. /\ Faults!TypeOK /\ \A t \in Thread : fcall[t] = Faults!NoCall
      /\ table' = <<>> /\ size' = InitSize /\ cleaned' = TRUE
      /\ fired' = [p \in Point |-> {}] /\ UNCHANGED <<freed, known, fcall, aborted>>
  BY DEF Faults!FaultInv, Faults!Cleanup
<1>2. Len(<<>>) = 0 /\ <<>> \in Seq(Faults!States) /\ \A k \in 1..0 : FALSE
  OBVIOUS
<1>3. Faults!TypeOK' /\ Faults!Unique'
  BY <1>1, <1>2, FaultAssumption DEF Faults!TypeOK, Faults!Unique
<1>4. \A k \in 1..Len(table') : Faults!StateInv(table[k])'
  BY <1>1, <1>2
<1>5. ASSUME NEW p \in Point PROVE Faults!PointInv(p)'
  <2>1. fired'[p] = {} /\ cleaned'
    BY <1>1
  <2> QED
    BY <2>1 DEF Faults!PointInv, Faults!InWindow
<1>6. ASSUME NEW t \in Thread PROVE Faults!CallInv(t)'
  <2>1. fcall'[t] = [op |-> "idle", point |-> Null, state |-> 0]
    BY <1>1 DEF Faults!NoCall
  <2> QED
    BY <2>1 DEF Faults!CallInv, Faults!Located
<1>7. ASSUME NEW t \in Thread, NEW p \in Point PROVE Faults!RegisterInv(t, p)'
  <2>1. Faults!RegisterInv(t, p) /\ known' = known /\ fcall' = fcall
    BY <1>1 DEF Faults!FaultInv
  <2> QED
    BY <2>1 DEF Faults!RegisterInv, Faults!Registers
<1> QED
  BY <1>1, <1>3, <1>4, <1>5, <1>6, <1>7 DEF Faults!FaultInv

\* Every step of a thread, and fault_cleanup(), preserves the invariant.
LEMMA FaultStep ==
  ASSUME Faults!FaultInv, [Faults!Next]_(Faults!vars)
  PROVE  Faults!FaultInv'
<1>0. given' = given
  BY DEF Faults!Next, Faults!vars
<1>1. ASSUME NEW t \in Thread, NEW p \in Point, Faults!FpEnabled(t, p) PROVE Faults!FaultInv'
  <2>1. UNCHANGED <<table, size, freed, known, fired, aborted, cleaned>>
    BY <1>1 DEF Faults!FpEnabled
  <2>2. CASE known[p]
    <3>1. fcall' = [fcall EXCEPT ![t] = [op |-> "enabled", point |-> p, state |-> 0]]
      BY <1>1, <2>2 DEF Faults!FpEnabled, Faults!Goto
    <3>2. "enabled" \in Faults!Locating /\ "enabled" # "register"
      BY DEF Faults!Locating
    <3> QED
      BY <1>0, <2>1, <2>2, <3>1, <3>2, CallBegins
  <2>3. CASE ~known[p]
    <3>1. /\ fcall' = [fcall EXCEPT ![t] = [op |-> "register", point |-> p, state |-> 0]]
          /\ \A u \in Thread : ~Faults!Registers(u, p)
      BY <1>1, <2>3 DEF Faults!FpEnabled, Faults!Goto, Faults!Registers
    <3>2. "register" \in Faults!Locating /\ "enabled" # "register"
      BY DEF Faults!Locating
    <3> QED
      BY <1>0, <2>1, <2>3, <3>1, <3>2, CallBegins
  <2> QED
    BY <2>2, <2>3
<1>2. ASSUME NEW t \in Thread, NEW p \in Point, NEW o \in {"enable", "disable"},
             Faults!Switch(t, p, o)
      PROVE  Faults!FaultInv'
  <2>1. /\ UNCHANGED <<table, size, freed, known, fired, aborted, cleaned>>
        /\ fcall' = [fcall EXCEPT ![t] = [op |-> o, point |-> p, state |-> 0]]
    BY <1>2 DEF Faults!Switch, Faults!Goto
  <2>2. o \in Faults!Locating /\ o # "enabled" /\ o # "register"
    BY DEF Faults!Locating
  <2> QED
    BY <1>0, <2>1, <2>2, CallBegins
<1>3. CASE UNCHANGED Faults!vars
  <2>1. /\ UNCHANGED <<table, size, freed, known, fcall, fired, aborted, cleaned>>
    BY <1>3 DEF Faults!vars
  <2>2. Faults!TypeOK' /\ (aborted => cleaned)'
    BY <1>0, <2>1 DEF Faults!FaultInv, Faults!TypeOK
  <2>3. \A t \in Thread : Faults!CallInv(t)' /\ \A p \in Point : Faults!RegisterInv(t, p)'
    BY <2>1 DEF Faults!FaultInv, Faults!CallInv, Faults!RegisterInv, Faults!Registers
  <2> QED
    BY <1>0, <2>1, <2>2, <2>3, StatesStay DEF Faults!FaultInv
<1> QED
  BY <1>0, <1>1, <1>2, <1>3, FindKeeps, AttachKeeps, HitKeeps, SwitchKeeps, CleanupKeeps
  DEF Faults!Next

\* A set with at most one element.
LEMMA OneElement ==
  ASSUME NEW S, \A h, i \in S : h = i
  PROVE  Cardinality(S) <= 1
<1>1. CASE S = {}
  BY <1>1, FS_EmptySet
<1>2. CASE S # {}
  <2>1. PICK h \in S : S = {h}
    BY <1>2
  <2> QED
    BY <2>1, FS_Singleton
<1> QED
  BY <1>1, <1>2

\* The invariant of fault injection, in every behaviour of the utilities of c-utils.
LEMMA FaultInvariant == CSpec => [](cPart = "faults" => Faults!FaultInv)
<1> DEFINE Inv == cPart = "faults" => Faults!FaultInv
<1>1. CInit => Inv
  <2>1. SUFFICES ASSUME Faults!Init PROVE Faults!FaultInv
    BY DEF CInit
  <2>2. /\ table = <<>> /\ size = InitSize /\ freed = FALSE /\ aborted = FALSE /\ cleaned = FALSE
        /\ known = [p \in Point |-> FALSE] /\ fired = [p \in Point |-> {}]
        /\ fcall = [t \in Thread |-> Faults!NoCall] /\ given \in FaultSpecs
    BY <2>1 DEF Faults!Init
  <2>3. Len(<<>>) = 0 /\ <<>> \in Seq(Faults!States) /\ \A k \in 1..0 : FALSE
    OBVIOUS
  <2>4. /\ Faults!NoCall \in Faults!Calls
        /\ Faults!NoCall.op = "idle" /\ Faults!NoCall.state = 0
    BY DEF Faults!NoCall, Faults!Calls
  <2>5. Faults!TypeOK
    BY <2>2, <2>3, <2>4, FaultAssumption DEF Faults!TypeOK
  <2>6. Faults!Unique /\ \A k \in 1..Len(table) : Faults!StateInv(table[k])
    BY <2>2, <2>3 DEF Faults!Unique
  <2>7. \A p \in Point : Faults!PointInv(p)
    <3>1. \A p \in Point : fired[p] = {} /\ ~known[p]
      BY <2>2
    <3> QED
      BY <3>1 DEF Faults!PointInv, Faults!InWindow
  <2>8. \A t \in Thread : fcall[t].op = "idle" /\ fcall[t].state = 0
    BY <2>2, <2>4
  <2>9. \A t \in Thread : Faults!CallInv(t) /\ \A p \in Point : Faults!RegisterInv(t, p)
    BY <2>8 DEF Faults!CallInv, Faults!Located, Faults!RegisterInv, Faults!Registers
  <2> QED
    BY <2>2, <2>5, <2>6, <2>7, <2>9 DEF Faults!FaultInv
<1>2. Inv /\ [CNext]_cVars => Inv'
  <2>1. [CNext]_cVars /\ cPart' = "faults" => cPart = "faults" /\ [Faults!Next]_(Faults!vars)
    BY DEF CNext, cVars, faultVars, Faults!vars
  <2> QED
    BY <2>1, FaultStep
<1> QED
  BY <1>1, <1>2, PTL DEF CSpec

\* Any number of threads and points, and first runs of a site that do not overlap
\* (fault.h): one state per point, calls that work on the state of their point,
\* and no assert of fault_register() or unset handler before fault_cleanup().
THEOREM FaultPointsCorrect == CSpec => []OneStatePerPoint
<1>1. ASSUME Faults!FaultInv PROVE Faults!OneStatePerPoint
  <2>1. ASSUME NEW t \in Thread, fcall[t].state # 0
        PROVE  table[fcall[t].state].id = fcall[t].point
    BY <1>1, <2>1 DEF Faults!FaultInv, Faults!CallInv
  <2> QED
    BY <1>1, <2>1 DEF Faults!FaultInv, Faults!Unique, Faults!OneStatePerPoint
<1>2. (cPart = "faults" => Faults!FaultInv) => OneStatePerPoint
  BY <1>1 DEF OneStatePerPoint
<1> QED
  BY <1>2, FaultInvariant, PTL

\* The handlers of fault_spec_table: a once point triggers at most once, repeat and
\* skip points inside and outside their window, whatever the threads interleave.
THEOREM FaultsTrigger == CSpec => []TriggersAsSpecified
<1>1. ASSUME Faults!FaultInv PROVE Faults!TriggersAsSpecified
  <2>1. SUFFICES ASSUME NEW p \in Point
                 PROVE  CASE given[p].type = "once"   -> Faults!Cardinality(fired[p]) <= 1
                          [] given[p].type = "repeat" -> \A h \in fired[p] : Faults!InWindow(p, h)
                          [] given[p].type = "skip"   -> \A h \in fired[p] : ~Faults!InWindow(p, h)
                          [] OTHER                        -> TRUE
    BY DEF Faults!TriggersAsSpecified
  <2>2. Faults!PointInv(p)
    BY <1>1 DEF Faults!FaultInv
  <2>3. given[p].type = "once" => Faults!Cardinality(fired[p]) <= 1
    <3>1. ASSUME given[p].type = "once" PROVE Cardinality(fired[p]) <= 1
      BY <2>2, <3>1, OneElement DEF Faults!PointInv, Faults!InWindow
    <3> QED
      BY <3>1 DEF Faults!Cardinality, Cardinality
  <2> QED
    BY <2>2, <2>3 DEF Faults!PointInv, Faults!InWindow
<1>2. (cPart = "faults" => Faults!FaultInv) => TriggersAsSpecified
  BY <1>1 DEF TriggersAsSpecified
<1> QED
  BY <1>2, FaultInvariant, PTL

-----------------------------------------------------------------------------
(* The operation stack.                                                    *)

\* Pushing and popping the newest call.
LEMMA PushedCall ==
  ASSUME NEW S, NEW s \in Seq(S), NEW c \in S
  PROVE  /\ Append(s, c) \in Seq(S) /\ Len(Append(s, c)) = Len(s) + 1
         /\ Append(s, c)[Len(s) + 1] = c
         /\ \A i \in 1..Len(s) : Append(s, c)[i] = s[i]
OBVIOUS

\* Popping the newest call.
LEMMA PoppedCall ==
  ASSUME NEW S, NEW s \in Seq(S), Len(s) >= 1
  PROVE  /\ SubSeq(s, 1, Len(s) - 1) \in Seq(S) /\ Len(SubSeq(s, 1, Len(s) - 1)) = Len(s) - 1
         /\ \A i \in 1..Len(s) - 1 : SubSeq(s, 1, Len(s) - 1)[i] = s[i]
<1> DEFINE n == Len(s) - 1  r == SubSeq(s, 1, n)
<1>1. n \in Nat /\ n < Len(s) /\ s \in [1..Len(s) -> S]
  OBVIOUS
<1>2. \A i \in 1..n : i \in 1..Len(s)
  BY <1>1
<1>3. r = [i \in 1..n |-> s[i]]
  BY <1>1
<1>4. r \in Seq(S) /\ Len(r) = n
  BY <1>1, <1>2, <1>3
<1> QED
  BY <1>3, <1>4

\* A call is pushed under a new id.
LEMMA PushNames ==
  ASSUME NEW o \in Seq(Nat), NEW c \in Seq(Nat), NEW m \in Nat, Operations!Names(o, c, m)
  PROVE  Operations!Names(Append(o, m + 1), Append(c, m + 1), m + 1)
<1>0. PICK n \in Nat : n = m + 1
  OBVIOUS
<1>1. PICK x : x = Append(o, n)
  OBVIOUS
<1>2. PICK y : y = Append(c, n)
  OBVIOUS
<1>3. PICK a \in Nat, b \in Nat : a = Len(o) /\ b = Len(c)
  OBVIOUS
<1>4. /\ Len(x) = a + 1 /\ x[a + 1] = n /\ \A j \in 1..a : x[j] = o[j] /\ o[j] \in Nat
      /\ Len(y) = b + 1 /\ y[b + 1] = n /\ \A j \in 1..b : y[j] = c[j] /\ c[j] \in Nat
  BY <1>1, <1>2, <1>3, PushedCall
<1>5. /\ \A j \in 1..a : o[j] # 0 /\ \E k \in 1..b : c[k] = o[j]
      /\ \A j, k \in 1..a : j < k => o[j] < o[k]
      /\ \A j, k \in 1..b : j < k /\ c[k] # 0 => c[j] < c[k]
      /\ \A j \in 1..b : c[j] <= m
  BY <1>3 DEF Operations!Names
<1>6. \A j \in 1..a : o[j] < n
  <2> SUFFICES ASSUME NEW j \in 1..a PROVE o[j] < n
    OBVIOUS
  <2>1. PICK k \in 1..b : c[k] = o[j]
    BY <1>5
  <2> QED
    BY <1>0, <1>4, <1>5, <2>1
<1>7. /\ \A j \in 1..b : c[j] < n
      /\ \A j \in 1..a + 1 : j \in 1..a \/ j = a + 1
      /\ \A j \in 1..b + 1 : j \in 1..b \/ j = b + 1
  BY <1>0, <1>4, <1>5
<1>8. ASSUME NEW j \in 1..a + 1 PROVE x[j] # 0 /\ \E k \in 1..b + 1 : y[k] = x[j]
  <2>1. CASE j \in 1..a
    <3>1. PICK k \in 1..b : c[k] = o[j]
      BY <1>5, <2>1
    <3> QED
      BY <1>4, <1>5, <2>1, <3>1
  <2>2. CASE j = a + 1
    BY <1>0, <1>4, <2>2
  <2> QED
    BY <1>7, <2>1, <2>2
<1>9. ASSUME NEW j \in 1..a + 1, NEW k \in 1..a + 1, j < k PROVE x[j] < x[k]
  <2>0. j \in 1..a
    BY <1>7, <1>9
  <2>1. CASE k \in 1..a
    BY <1>4, <1>5, <1>9, <2>0, <2>1
  <2>2. CASE k = a + 1
    BY <1>4, <1>6, <2>0, <2>2
  <2> QED
    BY <1>7, <2>1, <2>2
<1>10. ASSUME NEW j \in 1..b + 1, NEW k \in 1..b + 1, j < k, y[k] # 0 PROVE y[j] < y[k]
  <2>0. j \in 1..b
    BY <1>7, <1>10
  <2>1. CASE k \in 1..b
    BY <1>4, <1>5, <1>10, <2>0, <2>1
  <2>2. CASE k = b + 1
    BY <1>4, <1>7, <2>0, <2>2
  <2> QED
    BY <1>7, <2>1, <2>2
<1>11. ASSUME NEW j \in 1..b + 1 PROVE y[j] <= n
  <2>1. CASE j \in 1..b
    <3>1. y[j] = c[j] /\ c[j] \in Nat /\ c[j] < n
      BY <1>4, <1>7, <2>1
    <3> QED
      BY <3>1
  <2>2. CASE j = b + 1
    BY <1>4, <2>2
  <2> QED
    BY <1>7, <2>1, <2>2
<1>12. Operations!Names(x, y, n)
  BY <1>4, <1>8, <1>9, <1>10, <1>11 DEF Operations!Names
<1> QED
  BY <1>0, <1>1, <1>2, <1>12

\* A call is not pushed: the stack is full.
LEMMA DropNames ==
  ASSUME NEW o \in Seq(Nat), NEW c \in Seq(Nat), NEW m \in Nat, Operations!Names(o, c, m)
  PROVE  Operations!Names(o, Append(c, 0), m)
<1>1. PICK y : y = Append(c, 0)
  OBVIOUS
<1>2. PICK b \in Nat : b = Len(c)
  OBVIOUS
<1>3. Len(y) = b + 1 /\ y[b + 1] = 0 /\ \A j \in 1..b : y[j] = c[j] /\ c[j] \in Nat
  BY <1>1, <1>2, PushedCall
<1>4. /\ \A j \in 1..Len(o) : o[j] # 0 /\ \E k \in 1..b : c[k] = o[j]
      /\ \A j, k \in 1..Len(o) : j < k => o[j] < o[k]
      /\ \A j, k \in 1..b : j < k /\ c[k] # 0 => c[j] < c[k]
      /\ \A j \in 1..b : c[j] <= m
  BY <1>2 DEF Operations!Names
<1>5. \A j \in 1..Len(o) : \E k \in 1..b + 1 : y[k] = o[j]
  BY <1>3, <1>4
<1>6. ASSUME NEW j \in 1..b + 1, NEW k \in 1..b + 1, j < k, y[k] # 0 PROVE y[j] < y[k]
  <2>0. k # b + 1
    BY <1>3, <1>6
  <2>1. k \in 1..b /\ j \in 1..b
    BY <1>6, <2>0
  <2> QED
    BY <1>3, <1>4, <1>6, <2>1
<1>7. ASSUME NEW j \in 1..b + 1 PROVE y[j] <= m
  <2>1. CASE j \in 1..b
    BY <1>3, <1>4, <2>1
  <2>2. CASE j = b + 1
    BY <1>3, <2>2
  <2> QED
    BY <2>1, <2>2
<1> QED
  BY <1>1, <1>3, <1>4, <1>5, <1>6, <1>7 DEF Operations!Names

\* A call returns: what is left of the context is still among the calls.
LEMMA PopNames ==
  ASSUME NEW o \in Seq(Nat), NEW c \in Seq(Nat), NEW m, Operations!Names(o, c, m), Len(c) >= 1,
         NEW d, d = 0 \/ (Len(o) >= 1 /\ d = Len(o) - 1)
  PROVE  Operations!Names(SubSeq(o, 1, d), SubSeq(c, 1, Len(c) - 1), m)
<1>1. PICK a \in Nat, b \in Nat : a = Len(o) /\ b = Len(c) /\ b >= 1
  OBVIOUS
<1>2. d \in Nat /\ d <= a /\ (d = 0 \/ d = a - 1)
  BY <1>1
<1>3. PICK x : x = SubSeq(o, 1, d)
  OBVIOUS
<1>4. PICK y : y = SubSeq(c, 1, b - 1)
  OBVIOUS
<1>5. /\ Len(x) = d /\ \A j \in 1..d : x[j] = o[j] /\ j \in 1..a /\ o[j] \in Nat
      /\ Len(y) = b - 1 /\ \A j \in 1..b - 1 : y[j] = c[j] /\ j \in 1..b
  <2>1. CASE d = 0
    <3>1. x = <<>>
      BY <1>3, <2>1
    <3> QED
      BY <1>1, <1>4, <2>1, <3>1, PoppedCall
  <2>2. CASE a >= 1 /\ d = a - 1
    BY <1>1, <1>3, <1>4, <2>2, PoppedCall
  <2> QED
    BY <1>1, <2>1, <2>2
<1>6. /\ \A j \in 1..a : o[j] # 0 /\ \E k \in 1..b : c[k] = o[j]
      /\ \A j, k \in 1..a : j < k => o[j] < o[k]
      /\ \A j, k \in 1..b : j < k /\ c[k] # 0 => c[j] < c[k]
      /\ \A j \in 1..b : c[j] <= m
  BY <1>1 DEF Operations!Names
<1>7. ASSUME NEW j \in 1..d PROVE x[j] # 0 /\ \E k \in 1..b - 1 : y[k] = x[j]
  <2>1. PICK k \in 1..b : c[k] = o[j]
    BY <1>5, <1>6
  <2>2. d = a - 1 /\ j < a /\ a \in 1..a
    BY <1>1, <1>2
  <2>3. PICK l \in 1..b : c[l] = o[a]
    BY <1>6, <2>2
  <2>4. o[j] < o[a] /\ o[j] # 0 /\ o[a] \in Nat /\ o[j] \in Nat
    <3>1. \A i \in 1..a : o[i] \in Nat
      BY <1>1
    <3>2. j \in 1..a
      BY <1>5
    <3> QED
      BY <1>6, <2>2, <3>1, <3>2
  <2>5. k # b
    <3> SUFFICES ASSUME k = b PROVE FALSE
      OBVIOUS
    <3>1. l # b
      BY <2>1, <2>3, <2>4
    <3>2. c[l] < c[k]
      BY <1>1, <1>6, <2>1, <2>4, <3>1
    <3> QED
      BY <2>1, <2>3, <2>4, <3>2
  <2>6. k \in 1..b - 1
    BY <1>1, <2>5
  <2> QED
    BY <1>5, <2>1, <2>4, <2>6
<1>8. \A j, k \in 1..d : j < k => x[j] < x[k]
  BY <1>5, <1>6
<1>9. \A j, k \in 1..b - 1 : j < k /\ y[k] # 0 => y[j] < y[k]
  BY <1>5, <1>6
<1>10. \A j \in 1..b - 1 : y[j] <= m
  BY <1>5, <1>6
<1> QED
  BY <1>1, <1>3, <1>4, <1>5, <1>7, <1>8, <1>9, <1>10 DEF Operations!Names

\* The other threads keep their operations.
LEMMA OperationChanges ==
  ASSUME Operations!OperationInv, NEW t \in Thread, counter' \in Nat, counter <= counter',
         NEW o \in Seq(Nat), NEW c \in Seq(Nat), NEW f \in BOOLEAN,
         op' = [op EXCEPT ![t] = o], opCalls' = [opCalls EXCEPT ![t] = c],
         filled' = [filled EXCEPT ![t] = f],
         ~f => o = c /\ Len(o) < OpDepth, Operations!Names(o, c, counter')
  PROVE  Operations!OperationInv'
<1>1. /\ op' \in [Thread -> Seq(Nat)] /\ opCalls' \in [Thread -> Seq(Nat)]
      /\ filled' \in [Thread -> BOOLEAN]
      /\ op'[t] = o /\ opCalls'[t] = c /\ filled'[t] = f
      /\ \A u \in Thread : u # t => op'[u] = op[u] /\ opCalls'[u] = opCalls[u] /\ filled'[u] = filled[u]
  BY DEF Operations!OperationInv
<1>2. ASSUME NEW u \in Thread, ~filled'[u] PROVE op'[u] = opCalls'[u] /\ Len(op'[u]) < OpDepth
  <2>1. CASE u = t
    BY <1>1, <1>2, <2>1
  <2>2. CASE u # t
    BY <1>1, <1>2, <2>2 DEF Operations!OperationInv
  <2> QED
    BY <2>1, <2>2
<1>3. ASSUME NEW u \in Thread PROVE Operations!Names(op'[u], opCalls'[u], counter')
  <2>1. CASE u = t
    BY <1>1, <2>1
  <2>2. CASE u # t
    <3>1. PICK a, b \in Seq(Nat), m \in Nat : a = op[u] /\ b = opCalls[u] /\ m = counter
      BY DEF Operations!OperationInv
    <3>2. PICK n \in Nat : n = counter'
      OBVIOUS
    <3>3. Operations!Names(a, b, m) /\ m <= n
      BY <3>1, <3>2 DEF Operations!OperationInv
    <3>4. \A j \in 1..Len(b) : b[j] <= n
      BY <3>1, <3>3 DEF Operations!Names
    <3>5. Operations!Names(a, b, n)
      BY <3>3, <3>4 DEF Operations!Names
    <3> QED
      BY <1>1, <2>2, <3>1, <3>2, <3>5
  <2> QED
    BY <2>1, <2>2
<1> QED
  BY <1>1, <1>2, <1>3 DEF Operations!OperationInv

\* opstack_begin(), opstack_push(), opstack_pop() and opstack_end().
LEMMA OperationStep ==
  ASSUME Operations!OperationInv, [Operations!Next]_(Operations!vars)
  PROVE  Operations!OperationInv'
<1>1. /\ counter \in Nat /\ op \in [Thread -> Seq(Nat)] /\ opCalls \in [Thread -> Seq(Nat)]
      /\ filled \in [Thread -> BOOLEAN] /\ OpDepth \in Nat \ {0}
      /\ \A t \in Thread : /\ ~filled[t] => op[t] = opCalls[t] /\ Len(op[t]) < OpDepth
                          /\ Operations!Names(op[t], opCalls[t], counter)
  BY OperationAssumption DEF Operations!OperationInv
<1> DEFINE n == counter + 1
<1>2. n \in Nat /\ counter <= n /\ counter <= counter
  BY <1>1
<1>3. ASSUME NEW t \in Thread, Operations!Begin(t) PROVE Operations!OperationInv'
  <2>1. /\ counter' = n /\ op' = [op EXCEPT ![t] = <<n>>] /\ opCalls' = [opCalls EXCEPT ![t] = <<n>>]
        /\ filled' = [filled EXCEPT ![t] = (OpDepth = 1)]
    BY <1>3 DEF Operations!Begin, Operations!NextId
  <2> HIDE DEF n
  <2>2. <<n>> \in Seq(Nat) /\ Len(<<n>>) = 1
    BY <1>2
  <2>3. ~(OpDepth = 1) => 1 < OpDepth
    BY <1>1
  <2>4. n # 0
    BY <1>1 DEF n
  <2>5. PICK o : o = <<n>>
    OBVIOUS
  <2>6. o \in Seq(Nat) /\ Len(o) = 1 /\ o[1] = n /\ \A j \in 1..Len(o) : j = 1
    BY <2>2, <2>5
  <2>7. Operations!Names(o, o, n)
    BY <1>2, <2>4, <2>6 DEF Operations!Names
  <2> QED
    BY <1>2, <2>1, <2>3, <2>5, <2>6, <2>7, OperationChanges
<1>4. ASSUME NEW t \in Thread, Operations!Push(t) PROVE Operations!OperationInv'
  <2>1. op[t] \in Seq(Nat) /\ opCalls[t] \in Seq(Nat) /\ filled[t] \in BOOLEAN
    BY <1>1
  <2> DEFINE f == filled[t] \/ Len(op'[t]) = OpDepth
  <2>2. filled' = [filled EXCEPT ![t] = f]
    BY <1>4 DEF Operations!Push, Operations!PushWithin
  <2>3. CASE Len(op[t]) < OpDepth
    <3> DEFINE o == Append(op[t], n)  c == Append(opCalls[t], n)
    <3>1. /\ counter' = n /\ op' = [op EXCEPT ![t] = o] /\ opCalls' = [opCalls EXCEPT ![t] = c]
      BY <1>4, <2>3 DEF Operations!Push, Operations!PushWithin, Operations!NextId
    <3>0. Operations!Names(o, c, n)
      BY <1>1, <2>1, PushNames
    <3> HIDE DEF n
    <3>2. o \in Seq(Nat) /\ c \in Seq(Nat) /\ Len(o) = Len(op[t]) + 1
      BY <1>2, <2>1, PushedCall
    <3>3. op'[t] = o
      BY <1>1, <3>1
    <3>4. ASSUME ~f PROVE o = c /\ Len(o) < OpDepth
      <4>1. ~filled[t] /\ Len(o) # OpDepth
        BY <3>3, <3>4
      <4>2. op[t] = opCalls[t]
        BY <1>1, <4>1
      <4>3. Len(op[t]) \in Nat
        BY <2>1
      <4> QED
        BY <1>1, <2>3, <3>2, <4>1, <4>2, <4>3
    <3>5. f \in BOOLEAN
      BY <2>1
    <3> HIDE DEF o, c, f
    <3> QED
      BY <1>2, <2>2, <3>0, <3>1, <3>2, <3>4, <3>5, OperationChanges
  <2>4. CASE ~(Len(op[t]) < OpDepth)
    <3> DEFINE c == Append(opCalls[t], 0)
    <3>1. counter' = counter /\ op' = op /\ opCalls' = [opCalls EXCEPT ![t] = c]
      BY <1>4, <2>4 DEF Operations!Push, Operations!PushWithin
    <3>2. c \in Seq(Nat) /\ op' = [op EXCEPT ![t] = op[t]]
      BY <1>1, <2>1, <3>1, PushedCall
    <3>3. f = TRUE
      <4>1. op'[t] = op[t]
        BY <3>1
      <4>2. ~filled[t] => Len(op[t]) < OpDepth
        BY <1>1
      <4> QED
        BY <2>1, <2>4, <4>2
    <3>4. Operations!Names(op[t], c, counter)
      BY <1>1, <2>1, DropNames
    <3> HIDE DEF c, f
    <3> QED
      BY <1>1, <1>2, <2>1, <2>2, <3>1, <3>2, <3>3, <3>4, OperationChanges
  <2> QED
    BY <2>3, <2>4
<1>5. ASSUME NEW t \in Thread, Operations!Pop(t) PROVE Operations!OperationInv'
  <2>1. /\ op[t] \in Seq(Nat) /\ opCalls[t] \in Seq(Nat) /\ filled[t] \in BOOLEAN
        /\ Len(op[t]) \in Nat /\ Len(opCalls[t]) \in Nat
    BY <1>1
  <2>2. Len(opCalls[t]) > 1 /\ counter' = counter /\ filled' = filled
    BY <1>5 DEF Operations!Pop
  <2> DEFINE c == SubSeq(opCalls[t], 1, Len(opCalls[t]) - 1)
  <2>3. opCalls' = [opCalls EXCEPT ![t] = c] /\ filled' = [filled EXCEPT ![t] = filled[t]]
    BY <1>1, <1>5, <2>2 DEF Operations!Pop, Operations!ButLast
  <2>4. PICK depth \in (IF Len(op[t]) = 0 THEN {0} ELSE {Len(op[t]) - 1})
                       \cup (IF Len(op[t]) = OpDepth THEN {0} ELSE {}) :
          op' = [op EXCEPT ![t] = SubSeq(op[t], 1, depth)]
    BY <1>5 DEF Operations!Pop
  <2>5. depth = 0 \/ (Len(op[t]) >= 1 /\ depth = Len(op[t]) - 1)
    BY <2>1, <2>4
  <2> DEFINE o == SubSeq(op[t], 1, depth)
  <2>6. c \in Seq(Nat)
    BY <2>1, <2>2, PoppedCall
  <2>7. o \in Seq(Nat)
    <3>1. CASE depth = 0
      BY <2>1, <3>1
    <3>2. CASE Len(op[t]) >= 1 /\ depth = Len(op[t]) - 1
      BY <2>1, <3>2, PoppedCall
    <3> QED
      BY <2>5, <3>1, <3>2
  <2>8. ASSUME ~filled[t] PROVE o = c /\ Len(o) < OpDepth
    <3>1. op[t] = opCalls[t] /\ Len(op[t]) < OpDepth
      BY <1>1, <2>8
    <3>2. depth = Len(op[t]) - 1
      BY <1>1, <2>1, <2>2, <2>4, <3>1
    <3>3. Len(c) = Len(opCalls[t]) - 1
      BY <2>1, <2>2, PoppedCall
    <3> QED
      BY <1>1, <2>1, <3>1, <3>2, <3>3
  <2>10. Operations!Names(o, c, counter)
    <3>1. Operations!Names(op[t], opCalls[t], counter) /\ Len(opCalls[t]) >= 1
      BY <1>1, <2>1, <2>2
    <3> QED
      BY <2>1, <2>5, <3>1, PopNames
  <2> HIDE DEF o, c
  <2>9. op' = [op EXCEPT ![t] = o]
    BY <2>4 DEF o
  <2> QED
    BY <1>1, <1>2, <2>1, <2>2, <2>3, <2>6, <2>7, <2>8, <2>9, <2>10, OperationChanges
<1>6. ASSUME NEW t \in Thread, Operations!End(t) PROVE Operations!OperationInv'
  <2>1. /\ op' = [op EXCEPT ![t] = <<>>] /\ opCalls' = [opCalls EXCEPT ![t] = <<>>]
        /\ filled' = [filled EXCEPT ![t] = FALSE] /\ counter' = counter
    BY <1>6 DEF Operations!End
  <2>2. /\ <<>> \in Seq(Nat) /\ Len(<<>>) = 0 /\ 0 < OpDepth
        /\ Operations!Names(<<>>, <<>>, counter)
    BY <1>1 DEF Operations!Names
  <2> QED
    BY <1>1, <1>2, <2>1, <2>2, OperationChanges
<1>7. CASE UNCHANGED Operations!vars
  BY <1>7 DEF Operations!vars, Operations!OperationInv
<1> QED
  BY <1>3, <1>4, <1>5, <1>6, <1>7 DEF Operations!Next

-----------------------------------------------------------------------------
(* Performance tracing.                                                    *)

\* No record, nothing to be named.
LEMMA NoRecords ==
  ASSUME added' = {}
  PROVE  Traces!TraceNamesOperation'
BY DEF Traces!TraceNamesOperation

\* A function begins: above the frames there is that of the function that called it.
LEMMA PushFollows ==
  ASSUME NEW s \in Seq(Traces!Frame), NEW m \in Seq(Nat \ {0}), NEW f, NEW last \in Nat,
         Traces!Follows(s, m, f, last), NEW fr \in Traces!Frame, NEW n \in Nat \ {0}, last < n,
         fr.id = n
  PROVE  /\ Traces!Follows(Append(s, fr), Append(m, n), f, n)
         /\ Append(s, fr)[1].id = m[1] /\ Traces!PrevOf(Append(s, fr)).id >= m[Len(m)]
         /\ ~f => Traces!PrevOf(Append(s, fr)).id = m[Len(m)]
<1>1. PICK x : x = Append(s, fr)
  OBVIOUS
<1>2. PICK y : y = Append(m, n)
  OBVIOUS
<1>3. PICK e \in Nat : /\ Len(s) = Len(m) + e /\ (~f => e = 0)
                       /\ \A i \in 1..Len(m) : s[i + e].id >= m[i] /\ (~f => s[i].id = m[i])
  BY DEF Traces!Follows
<1>4. /\ m # <<>> /\ m[Len(m)] <= last /\ s[1].id = m[1]
      /\ \A i, j \in 1..Len(m) : i < j => m[i] < m[j]
  BY DEF Traces!Follows
<1>5. PICK b \in Nat : b = Len(m) /\ b >= 1
  BY <1>4
<1>6. PICK a \in Nat : a = Len(s) /\ a = b + e
  BY <1>3, <1>5
<1>7. /\ Len(x) = a + 1 /\ x[a + 1] = fr /\ \A i \in 1..a : x[i] = s[i]
      /\ Len(y) = b + 1 /\ y[b + 1] = n /\ \A i \in 1..b : y[i] = m[i] /\ m[i] \in Nat
  <2>1. Len(x) = a + 1 /\ x[a + 1] = fr /\ \A i \in 1..a : x[i] = s[i]
    <3>1. /\ Len(Append(s, fr)) = Len(s) + 1 /\ Append(s, fr)[Len(s) + 1] = fr
          /\ \A i \in 1..Len(s) : Append(s, fr)[i] = s[i]
      BY PushedCall
    <3> QED
      BY <1>1, <1>6, <3>1
  <2>3. Len(y) = b + 1 /\ y[b + 1] = n /\ \A i \in 1..b : y[i] = m[i]
    BY <1>2, <1>5, PushedCall
  <2>2. \A i \in 1..b : m[i] \in Nat
    BY <1>5
  <2> QED
    BY <2>1, <2>2, <2>3
<1>8. \A i \in 1..b + 1 : i \in 1..b \/ i = b + 1
  OBVIOUS
<1>9. /\ 1 \in 1..a /\ 1 \in 1..b /\ b \in 1..b /\ a \in 1..a /\ y # <<>> /\ x[1].id = m[1]
      /\ y[1] = m[1]
  BY <1>2, <1>4, <1>5, <1>6, <1>7
<1>10. ASSUME NEW i \in 1..b, NEW j \in 1..b, i < j PROVE m[i] < m[j]
  BY <1>4, <1>5, <1>10
<1>11. ASSUME NEW i \in 1..b PROVE m[i] < n
  <2>1. m[b] < n /\ m[b] \in Nat /\ m[i] \in Nat
    BY <1>4, <1>5, <1>7, <1>9
  <2>2. i = b \/ m[i] < m[b]
    BY <1>9, <1>10
  <2> QED
    BY <2>1, <2>2
<1>12. ASSUME NEW i \in 1..b + 1, NEW j \in 1..b + 1, i < j PROVE y[i] < y[j]
  <2>0. i \in 1..b
    BY <1>8, <1>12
  <2>1. CASE j \in 1..b
    BY <1>7, <1>10, <1>12, <2>0, <2>1
  <2>2. CASE j = b + 1
    BY <1>7, <1>11, <2>0, <2>2
  <2> QED
    BY <1>8, <2>1, <2>2
<1>13. ASSUME NEW i \in 1..b + 1 PROVE x[i + e].id >= y[i] /\ (~f => x[i].id = y[i])
  <2>1. CASE i \in 1..b
    <3>1. i + e \in 1..a /\ i \in 1..a
      BY <1>6, <2>1
    <3>2. x[i + e] = s[i + e] /\ x[i] = s[i] /\ y[i] = m[i]
      BY <1>7, <2>1, <3>1
    <3> QED
      BY <1>3, <1>5, <2>1, <3>2
  <2>2. CASE i = b + 1
    <3>1. i + e = a + 1 /\ x[i + e].id = n /\ y[i] = n /\ n >= n
      BY <1>6, <1>7, <2>2
    <3>2. ~f => x[i].id = n
      BY <1>3, <1>6, <1>7, <2>2
    <3> QED
      BY <3>1, <3>2
  <2> QED
    BY <1>8, <2>1, <2>2
<1>14. Len(x) = Len(y) + e
  BY <1>6, <1>7
<1>15. Traces!Follows(x, y, f, n)
  <2>1. y[Len(y)] <= n /\ x[1].id = y[1]
    BY <1>7, <1>9
  <2>2. Len(y) = b + 1
    BY <1>7
  <2> QED
    BY <1>3, <1>9, <1>12, <1>13, <1>14, <2>1, <2>2 DEF Traces!Follows
<1>16. Traces!PrevOf(x) = s[a]
  <2>1. Len(x) # 1 /\ Len(x) - 1 = a
    BY <1>5, <1>6, <1>7
  <2> QED
    BY <1>7, <1>9, <2>1 DEF Traces!PrevOf
<1>17. s[a].id >= m[b] /\ (~f => s[a].id = m[b])
  BY <1>3, <1>5, <1>6, <1>9
<1> QED
  BY <1>1, <1>2, <1>5, <1>9, <1>15, <1>16, <1>17

\* A function returns: with its finii its frame goes, or one above it, without it
\* nothing does.
LEMMA PopFollows ==
  ASSUME NEW s \in Seq(Traces!Frame), NEW m \in Seq(Nat \ {0}), NEW f, NEW last \in Nat,
         Traces!Follows(s, m, f, last), Len(m) > 1
  PROVE  /\ Traces!Follows(Traces!ButLast(s), Traces!ButLast(m), f, last)
         /\ Traces!Follows(s, Traces!ButLast(m), TRUE, last)
<1>1. PICK x : x = Traces!ButLast(s)
  OBVIOUS
<1>2. PICK y : y = Traces!ButLast(m)
  OBVIOUS
<1>3. PICK e \in Nat : /\ Len(s) = Len(m) + e /\ (~f => e = 0)
                       /\ \A i \in 1..Len(m) : s[i + e].id >= m[i] /\ (~f => s[i].id = m[i])
  BY DEF Traces!Follows
<1>4. /\ m[Len(m)] <= last /\ s[1].id = m[1]
      /\ \A i, j \in 1..Len(m) : i < j => m[i] < m[j]
  BY DEF Traces!Follows
<1>5. PICK b \in Nat : b + 1 = Len(m) /\ b >= 1
  <2>1. PICK n \in Nat : n = Len(m) /\ n > 1
    OBVIOUS
  <2>2. n - 1 \in Nat /\ (n - 1) + 1 = n /\ n - 1 >= 1
    BY <2>1
  <2> QED
    BY <2>1, <2>2
<1>6. PICK a \in Nat : a + 1 = Len(s) /\ a = b + e
  <2>1. b + e \in Nat /\ (b + e) + 1 = (b + 1) + e
    OBVIOUS
  <2> QED
    BY <1>3, <1>5, <2>1
<1>7. /\ Len(x) = a /\ \A i \in 1..a : x[i] = s[i]
      /\ Len(y) = b /\ \A i \in 1..b : y[i] = m[i]
  <2>1. Len(s) >= 1 /\ Len(m) >= 1 /\ Len(s) - 1 = a /\ Len(m) - 1 = b
    BY <1>5, <1>6
  <2> QED
    BY <1>1, <1>2, <2>1, PoppedCall DEF Traces!ButLast
<1>8. /\ \A i \in 1..b : i \in 1..b + 1 /\ i + 1 \in 1..b + 1 /\ i + e \in 1..a /\ i \in 1..a
      /\ 1 \in 1..a /\ 1 \in 1..b /\ b \in 1..b
      /\ \A i \in 1..b + 1 : m[i] \in Nat
  <2>1. \A i \in 1..b + 1 : m[i] \in Nat
    BY <1>5
  <2> QED
    BY <1>5, <1>6, <2>1
<1>9. y # <<>>
  <2>1. Len(<<>>) = 0
    OBVIOUS
  <2> QED
    BY <1>5, <1>7, <2>1
<1>10. y[Len(y)] <= last
  <2>1. b \in 1..b + 1 /\ b + 1 \in 1..b + 1 /\ b < b + 1
    BY <1>5
  <2>2. m[b] < m[b + 1] /\ m[b + 1] <= last /\ m[b] \in Nat /\ m[b + 1] \in Nat
    BY <1>4, <1>5, <1>8, <2>1
  <2> QED
    BY <1>7, <1>8, <2>2
<1>11. \A i, j \in 1..b : i < j => y[i] < y[j]
  BY <1>4, <1>5, <1>7, <1>8
<1>12. Traces!Follows(x, y, f, last)
  <2>1. ASSUME NEW i \in 1..b PROVE x[i + e].id >= y[i] /\ (~f => x[i].id = y[i])
    BY <1>3, <1>5, <1>7, <1>8
  <2>2. Len(x) = Len(y) + e /\ x[1].id = y[1]
    BY <1>4, <1>6, <1>7, <1>8
  <2> QED
    BY <1>3, <1>7, <1>9, <1>10, <1>11, <2>1, <2>2 DEF Traces!Follows
<1>13. Traces!Follows(s, y, TRUE, last)
  <2>1. PICK d \in Nat : d = e + 1
    OBVIOUS
  <2>2. ASSUME NEW i \in 1..b PROVE s[i + d].id >= y[i]
    <3>1. i + d = (i + 1) + e
      BY <2>1
    <3>2. s[(i + 1) + e].id >= m[i + 1]
      BY <1>3, <1>5, <1>8
    <3>0. i \in 1..b + 1 /\ i + 1 \in 1..b + 1 /\ i < i + 1
      BY <1>8
    <3>3. m[i] < m[i + 1] /\ m[i] \in Nat /\ m[i + 1] \in Nat /\ y[i] = m[i]
      BY <1>4, <1>5, <1>7, <1>8, <3>0
    <3>4. i + d \in 1..Len(s)
      BY <1>6, <2>1
    <3>5. s[i + d].id \in Nat
      <4>1. s[i + d] \in Traces!Frame
        BY <3>4
      <4> QED
        BY <4>1 DEF Traces!Frame
    <3>6. s[i + d].id >= m[i + 1]
      BY <3>1, <3>2
    <3>7. \A u, v, w \in Nat : u >= v /\ w < v => u >= w
      OBVIOUS
    <3> QED
      BY <3>3, <3>5, <3>6, <3>7
  <2>3. Len(s) = Len(y) + d /\ s[1].id = y[1]
    BY <1>4, <1>6, <1>7, <1>8, <2>1
  <2> QED
    BY <1>7, <1>9, <1>10, <1>11, <2>2, <2>3 DEF Traces!Follows
<1> QED
  BY <1>1, <1>2, <1>12, <1>13

\* The other threads keep their stacks.
LEMMA TraceChanges ==
  ASSUME Traces!TraceInv, NEW t \in Thread, NEW s, NEW m \in Seq(Nat \ {0}), NEW f \in BOOLEAN,
         stack' = [stack EXCEPT ![t] = s], nest' = [nest EXCEPT ![t] = m],
         untraced' = [untraced EXCEPT ![t] = f],
         UNCHANGED <<key, tsdb>>, idgen' \in Nat, idgen <= idgen',
         s # Traces!NoStack =>
           s \in Seq(Traces!Frame) /\ key /\ Traces!Follows(s, m, f, idgen')
  PROVE  Traces!TraceType' /\ \A u \in Thread : Traces!StackInv(u)'
<1>1. Traces!TraceType /\ \A u \in Thread : Traces!StackInv(u)
  BY DEF Traces!TraceInv
<1>2. /\ stack' = [u \in Thread |-> stack'[u]]
      /\ stack'[t] = s /\ nest'[t] = m /\ untraced'[t] = f
      /\ \A u \in Thread : u # t => /\ stack'[u] = stack[u] /\ nest'[u] = nest[u]
                                    /\ untraced'[u] = untraced[u]
      /\ nest' \in [Thread -> Seq(Nat \ {0})] /\ untraced' \in [Thread -> BOOLEAN]
  BY <1>1 DEF Traces!TraceType, Traces!InvalidId
<1>3. ASSUME NEW u \in Thread PROVE stack'[u] # Traces!NoStack => stack'[u] \in Seq(Traces!Frame)
  <2>1. CASE u = t
    BY <1>2, <2>1
  <2>2. CASE u # t
    BY <1>1, <1>2, <2>2 DEF Traces!TraceType
  <2> QED
    BY <2>1, <2>2
<1>4. ASSUME NEW u \in Thread PROVE Traces!StackInv(u)'
  <2>1. CASE u = t
    BY <1>2, <2>1 DEF Traces!StackInv
  <2>2. CASE u # t
    <3>1. PICK x, y, l, z : x = stack[u] /\ y = nest[u] /\ l = idgen /\ z = idgen'
      OBVIOUS
    <3>2. ASSUME x # Traces!NoStack PROVE key /\ Traces!Follows(x, y, untraced[u], z)
      <4>1. key /\ Traces!Follows(x, y, untraced[u], l)
        BY <1>1, <3>1, <3>2 DEF Traces!StackInv
      <4>2. y \in Seq(Nat \ {0}) /\ l \in Nat /\ z \in Nat /\ l <= z
        BY <1>1, <3>1 DEF Traces!TraceType, Traces!InvalidId
      <4>3. y # <<>> /\ y[Len(y)] <= l
        BY <4>1 DEF Traces!Follows
      <4>4. y[Len(y)] \in Nat
        BY <4>2, <4>3
      <4>5. y[Len(y)] <= z
        BY <4>2, <4>3, <4>4
      <4> QED
        BY <4>1, <4>5 DEF Traces!Follows
    <3> QED
      BY <1>2, <2>2, <3>1, <3>2 DEF Traces!StackInv
  <2> QED
    BY <2>1, <2>2
<1> QED
  BY <1>1, <1>2, <1>3, <1>4 DEF Traces!TraceType, Traces!InvalidId

\* The top of a stack is its last frame, that of the function the thread is in or of
\* one that began later.
LEMMA TopOfStack ==
  ASSUME Traces!TraceInv, NEW t \in Thread
  PROVE  LET n == Len(stack[t]) IN
         Traces!Top(t).id # 0 =>
           /\ stack[t] # Traces!NoStack /\ stack[t] \in Seq(Traces!Frame) /\ n \in Nat /\ n >= 1
           /\ Traces!Top(t) = stack[t][n] /\ Traces!SmTag(Traces!Top(t).tag) # {}
           /\ Traces!Top(t).id >= Traces!LastOf(nest[t])
           /\ ~untraced[t] => Traces!Top(t).id = Traces!LastOf(nest[t])
<1> SUFFICES ASSUME Traces!Top(t).id # 0
             PROVE  LET n == Len(stack[t]) IN
                    /\ stack[t] # Traces!NoStack /\ stack[t] \in Seq(Traces!Frame) /\ n \in Nat /\ n >= 1
                    /\ Traces!Top(t) = stack[t][n] /\ Traces!SmTag(Traces!Top(t).tag) # {}
                    /\ Traces!Top(t).id >= Traces!LastOf(nest[t])
                    /\ ~untraced[t] => Traces!Top(t).id = Traces!LastOf(nest[t])
  OBVIOUS
<1> DEFINE s == stack[t]  n == Len(s)
<1>1. Traces!Invalid.id = 0
  BY DEF Traces!Invalid, Traces!InvalidId
<1>2. ~Traces!Absent(t) /\ Traces!Top(t) = s[n]
  BY <1>1 DEF Traces!Top, Traces!LastOf
<1>3. s # Traces!NoStack /\ s # <<>>
  BY <1>2 DEF Traces!Absent
<1>4. s \in Seq(Traces!Frame) /\ Traces!StackInv(t)
  BY <1>3 DEF Traces!TraceInv, Traces!TraceType
<1>5. n \in Nat /\ n >= 1
  <2>1. \A x \in Seq(Traces!Frame) : x # <<>> => Len(x) \in Nat \ {0}
    BY EmptySeq
  <2>2. n \in Nat \ {0}
    BY <1>3, <1>4, <2>1
  <2> HIDE DEF n
  <2> QED
    BY <2>2
<1>6. s[n] \in Traces!Frame
  BY <1>4, <1>5
<1>7. s[n].tag \in FnTag
  BY <1>6 DEF Traces!Frame
<1>8. PICK m : m = nest[t] /\ m \in Seq(Nat \ {0})
  BY DEF Traces!TraceInv, Traces!TraceType, Traces!InvalidId
<1>9. PICK l \in Nat : l = Len(m)
  BY <1>8
<1>10. PICK x : x = s
  OBVIOUS
<1>11. s[n].id >= m[l] /\ (~untraced[t] => s[n].id = m[l])
  <2>1. Traces!Follows(x, m, untraced[t], idgen)
    BY <1>3, <1>4, <1>8, <1>10 DEF Traces!StackInv
  <2>2. PICK e \in Nat : /\ Len(x) = Len(m) + e /\ (~untraced[t] => e = 0)
                         /\ \A i \in 1..Len(m) : /\ x[i + e].id >= m[i]
                                                 /\ ~untraced[t] => x[i].id = m[i]
    BY <2>1 DEF Traces!Follows
  <2>3. l >= 1
    <3>1. m # <<>>
      BY <2>1 DEF Traces!Follows
    <3> QED
      BY <1>8, <1>9, <3>1
  <2>4. l \in 1..l /\ Len(x) = l + e
    BY <1>9, <2>2, <2>3
  <2>5. x[Len(x)].id >= m[l] /\ (~untraced[t] => x[Len(x)].id = m[l])
    BY <1>9, <2>2, <2>4
  <2> QED
    BY <1>10, <2>5
<1> QED
  BY <1>2, <1>3, <1>4, <1>5, <1>7, <1>8, <1>9, <1>11, TraceAssumption DEF Traces!LastOf

\* Without a top, no stack.
LEMMA NoTop ==
  ASSUME Traces!TraceInv, NEW t \in Thread, Traces!Top(t).id = 0
  PROVE  stack[t] = Traces!NoStack
<1> SUFFICES ASSUME stack[t] # Traces!NoStack PROVE FALSE
  OBVIOUS
<1>1. PICK s, m : s = stack[t] /\ m = nest[t]
  OBVIOUS
<1>2. s \in Seq(Traces!Frame) /\ m \in Seq(Nat \ {0}) /\ Traces!StackInv(t)
  BY <1>1 DEF Traces!TraceInv, Traces!TraceType, Traces!InvalidId
<1>3. key /\ Traces!Follows(s, m, untraced[t], idgen)
  BY <1>1, <1>2 DEF Traces!StackInv
<1>4. PICK e \in Nat : Len(s) = Len(m) + e
  BY <1>3 DEF Traces!Follows
<1>5. PICK n \in Nat : n = Len(s) /\ n >= 1
  <2>1. m # <<>>
    BY <1>3 DEF Traces!Follows
  <2>2. PICK l \in Nat : l = Len(m) /\ l >= 1
    BY <1>2, <2>1
  <2> QED
    BY <1>4, <2>2
<1>6. s # <<>>
  BY <1>5
<1>7. Traces!Top(t) = s[n]
  BY <1>1, <1>3, <1>5, <1>6 DEF Traces!Top, Traces!Absent, Traces!LastOf
<1>8. s[n] \in Traces!Frame
  BY <1>2, <1>5
<1> QED
  BY <1>7, <1>8 DEF Traces!Frame, Traces!InvalidId

\* perfc_tls_ini(): the caller's id, alone on the stack.
LEMMA TlsIniKeeps ==
  ASSUME Traces!TraceInv, NEW t \in Thread, NEW tag \in FnTag, Traces!TlsIni(t, tag)
  PROVE  Traces!TraceInv'
<1> DEFINE i == idgen + 1  fr == [id |-> i, tag |-> tag]  s == IF key THEN <<fr>> ELSE Traces!NoStack
<1>1. /\ i \in Nat \ {0} /\ untraced[t] \in BOOLEAN /\ untraced \in [Thread -> BOOLEAN]
      /\ idgen <= i
  BY DEF Traces!TraceInv, Traces!TraceType
<1>2. /\ nest' = [nest EXCEPT ![t] = <<i>>] /\ idgen' = i /\ added' = {}
      /\ untraced' = [untraced EXCEPT ![t] = untraced[t]] /\ UNCHANGED <<key, tsdb>>
  BY <1>1 DEF Traces!TlsIni
<1>3. stack' = [stack EXCEPT ![t] = IF key THEN Append(<<>>, fr) ELSE Traces!NoStack]
  BY DEF Traces!TlsIni, Traces!Pushed
<1> HIDE DEF i
<1>4. fr \in Traces!Frame /\ fr.id = i
  BY <1>1 DEF Traces!Frame, Traces!InvalidId
<1> HIDE DEF fr
<1>5. Append(<<>>, fr) = <<fr>> /\ <<fr>> \in Seq(Traces!Frame) /\ Len(<<fr>>) = 1 /\ <<fr>>[1] = fr
  BY <1>4
<1>6. <<i>> \in Seq(Nat \ {0}) /\ Len(<<i>>) = 1 /\ <<i>>[1] = i /\ <<i>> # <<>>
  BY <1>1
<1>7. stack' = [stack EXCEPT ![t] = s]
  BY <1>3, <1>5
<1>8. s # Traces!NoStack => s \in Seq(Traces!Frame) /\ key /\ Traces!Follows(s, <<i>>, untraced[t], i)
  <2> SUFFICES ASSUME s # Traces!NoStack
               PROVE  s \in Seq(Traces!Frame) /\ key /\ Traces!Follows(s, <<i>>, untraced[t], i)
    OBVIOUS
  <2>1. s = <<fr>> /\ key
    OBVIOUS
  <2>2. PICK m : m = <<i>>
    OBVIOUS
  <2>3. m # <<>> /\ Len(m) = 1 /\ m[1] = i /\ \A j \in 1..Len(m) : j = 1
    BY <1>6, <2>2
  <2> HIDE DEF s
  <2>4. s \in Seq(Traces!Frame) /\ Len(s) = 1 /\ s[1] = fr
    BY <1>5, <2>1
  <2>5. 0 \in Nat /\ Len(s) = Len(m) + 0
    BY <2>3, <2>4
  <2>6. \A j \in 1..Len(m) : s[j + 0].id >= m[j] /\ s[j].id = m[j]
    BY <1>1, <1>4, <2>3, <2>4
  <2>7. Traces!Follows(s, m, untraced[t], i)
    BY <1>1, <1>4, <2>3, <2>4, <2>5, <2>6 DEF Traces!Follows
  <2> QED
    BY <2>1, <2>2, <2>4, <2>7
<1> HIDE DEF s
<1>9. Traces!TraceType' /\ \A u \in Thread : Traces!StackInv(u)'
  BY <1>1, <1>2, <1>6, <1>7, <1>8, TraceChanges
<1> QED
  BY <1>2, <1>9, NoRecords DEF Traces!TraceInv

\* perfc_trace_inii(): the frame pushed is that of the new function, below it
\* are the frames of the origin and of the caller.
LEMMA TraceIniiKeeps ==
  ASSUME Traces!TraceInv, NEW t \in Thread, NEW tag \in FnTag, Traces!TraceInii(t, tag)
  PROVE  Traces!TraceInv'
<1> DEFINE i == idgen + 1  fr == [id |-> i, tag |-> tag]  m == nest[t]  m2 == Append(m, i)
           s == stack[t]  f == untraced[t]
<1>1. /\ i \in Nat \ {0} /\ idgen \in Nat /\ idgen < i /\ f \in BOOLEAN /\ m \in Seq(Nat \ {0}) /\ untraced \in [Thread -> BOOLEAN]
      /\ nest \in [Thread -> Seq(Nat \ {0})] /\ stack = [u \in Thread |-> stack[u]] /\ Traces!StackInv(t)
      /\ s # Traces!NoStack => s \in Seq(Traces!Frame)
  BY DEF Traces!TraceInv, Traces!TraceType, Traces!InvalidId
<1>2. /\ nest' = [nest EXCEPT ![t] = m2] /\ idgen' = i /\ m # <<>>
      /\ untraced' = [untraced EXCEPT ![t] = f] /\ UNCHANGED <<key, tsdb>> /\ untraced' = untraced
  BY <1>1 DEF Traces!TraceInii
<1>3. \/ /\ ~key \/ s = Traces!NoStack
         /\ added' = {} /\ stack' = stack
      \/ /\ key /\ s # Traces!NoStack /\ stack' = [stack EXCEPT ![t] = Append(s, fr)]
         /\ LET s2 == Append(s, fr) IN
            added' = IF tsdb
                     THEN {[kind |-> "init", thread |-> t, id |-> i, sm |-> Traces!SmTag(tag)],
                           [kind |-> "map", thread |-> t, id |-> i, sm |-> Traces!SmTag(tag),
                            origin |-> s2[1].id, caller |-> Traces!PrevOf(s2).id,
                            real |-> <<m[1], Traces!LastOf(m)>>]}
                     ELSE {}
  BY DEF Traces!TraceInii, Traces!Pushed, Traces!Add
<1> HIDE DEF i
<1>4. fr \in Traces!Frame /\ fr.id = i
  BY <1>1 DEF Traces!Frame, Traces!InvalidId
<1> HIDE DEF fr
<1>5. Len(m) \in Nat /\ Len(m) >= 1
  <2>1. \A x \in Seq(Nat \ {0}) : x # <<>> => Len(x) \in Nat \ {0}
    BY EmptySeq
  <2> DEFINE k == Len(m)
  <2>2. k \in Nat \ {0}
    BY <1>1, <1>2, <2>1
  <2> HIDE DEF k
  <2>3. k \in Nat /\ k >= 1
    BY <2>2
  <2> QED
    BY <2>3 DEF k
<1>6. /\ m2 \in Seq(Nat \ {0}) /\ Len(m2) = Len(m) + 1 /\ m2[Len(m) + 1] = i
      /\ \A j \in 1..Len(m) : m2[j] = m[j]
  BY <1>1, PushedCall
<1>7. m2 # <<>> /\ Traces!LastOf(m2) = i /\ nest'[t] = m2
  BY <1>1, <1>2, <1>5, <1>6 DEF Traces!LastOf
<1> HIDE DEF m2
<1>8. CASE stack' = stack /\ added' = {} /\ (~key \/ s = Traces!NoStack)
  <2>1. s = Traces!NoStack /\ stack' = [stack EXCEPT ![t] = s]
    BY <1>1, <1>8 DEF Traces!StackInv
  <2>2. Traces!TraceType' /\ \A u \in Thread : Traces!StackInv(u)'
    <3>1. idgen' \in Nat /\ idgen <= idgen'
      BY <1>1, <1>2
    <3> QED
      BY <1>1, <1>2, <1>6, <2>1, <3>1, TraceChanges
  <2> QED
    BY <1>8, <2>2, NoRecords DEF Traces!TraceInv
<1>9. CASE /\ key /\ s # Traces!NoStack /\ stack' = [stack EXCEPT ![t] = Append(s, fr)]
           /\ LET s2 == Append(s, fr) IN
              added' = IF tsdb
                       THEN {[kind |-> "init", thread |-> t, id |-> i, sm |-> Traces!SmTag(tag)],
                             [kind |-> "map", thread |-> t, id |-> i, sm |-> Traces!SmTag(tag),
                              origin |-> s2[1].id, caller |-> Traces!PrevOf(s2).id,
                              real |-> <<m[1], Traces!LastOf(m)>>]}
                       ELSE {}
  <2> DEFINE s2 == Append(s, fr)
  <2>1. s \in Seq(Traces!Frame)
    BY <1>1, <1>9
  <2>2. /\ s2 \in Seq(Traces!Frame) /\ Len(s2) = Len(s) + 1 /\ s2[Len(s) + 1] = fr
        /\ \A j \in 1..Len(s) : s2[j] = s[j]
    BY <1>4, <2>1, PushedCall
  <2>3. /\ stack' = [stack EXCEPT ![t] = s2]
        /\ added' = IF tsdb
                    THEN {[kind |-> "init", thread |-> t, id |-> i, sm |-> Traces!SmTag(tag)],
                          [kind |-> "map", thread |-> t, id |-> i, sm |-> Traces!SmTag(tag),
                           origin |-> s2[1].id, caller |-> Traces!PrevOf(s2).id,
                           real |-> <<m[1], Traces!LastOf(m)>>]}
                    ELSE {}
    BY <1>9
  <2>4. Traces!Follows(s, m, f, idgen)
    BY <1>1, <1>9 DEF Traces!StackInv
  <2>5. /\ Traces!Follows(s2, Append(m, i), f, i)
        /\ s2[1].id = m[1] /\ Traces!PrevOf(s2).id >= m[Len(m)]
        /\ ~f => Traces!PrevOf(s2).id = m[Len(m)]
    <3> HIDE DEF f
    <3> QED
      BY <1>1, <1>4, <2>1, <2>4, PushFollows
  <2> HIDE DEF s2
  <2>6. Traces!TraceType' /\ \A u \in Thread : Traces!StackInv(u)'
    <3>1. s2 # Traces!NoStack => s2 \in Seq(Traces!Frame) /\ key /\ Traces!Follows(s2, m2, f, idgen')
      BY <1>2, <1>9, <2>2, <2>5 DEF m2
    <3>2. f \in BOOLEAN /\ idgen' \in Nat /\ idgen <= idgen' /\ m2 \in Seq(Nat \ {0})
      BY <1>1, <1>2, <1>6
    <3>3. /\ stack' = [stack EXCEPT ![t] = s2] /\ nest' = [nest EXCEPT ![t] = m2]
          /\ untraced' = [untraced EXCEPT ![t] = f] /\ UNCHANGED <<key, tsdb>>
      BY <1>2, <2>3
    <3> QED
      BY <3>1, <3>2, <3>3, TraceChanges
  <2>7. /\ s2[1].id = m[1] /\ Traces!PrevOf(s2).id >= Traces!LastOf(m)
        /\ ~f => Traces!PrevOf(s2).id = Traces!LastOf(m)
    BY <2>5 DEF Traces!LastOf
  <2>8. Traces!SmTag(tag) # {}
    BY TraceAssumption
  <2>9. ASSUME NEW r \in added'
        PROVE  /\ r.sm # {}
               /\ r.kind = "init" => r.id = Traces!LastOf(nest'[r.thread])
               /\ r.kind = "map" =>
                    /\ r.origin = r.real[1] /\ r.caller >= r.real[2]
                    /\ ~untraced'[r.thread] => r.caller = r.real[2]
               /\ r.kind \in {"attr", "fini"} =>
                    r.id >= r.real /\ (~untraced'[r.thread] => r.id = r.real)
    <3> DEFINE a == [kind |-> "init", thread |-> t, id |-> i, sm |-> Traces!SmTag(tag)]
               b == [kind |-> "map", thread |-> t, id |-> i, sm |-> Traces!SmTag(tag),
                     origin |-> s2[1].id, caller |-> Traces!PrevOf(s2).id,
                     real |-> <<m[1], Traces!LastOf(m)>>]
    <3>1. r = a \/ r = b
      BY <2>3, <2>9
    <3>2. CASE r = a
      <4>1. r.kind = "init" /\ r.thread = t /\ r.id = i /\ r.sm = Traces!SmTag(tag)
        BY <3>2
      <4> QED
        BY <1>7, <2>8, <4>1
    <3>3. CASE r = b
      <4>1. /\ r.kind = "map" /\ r.thread = t /\ r.sm = Traces!SmTag(tag)
            /\ r.origin = s2[1].id /\ r.caller = Traces!PrevOf(s2).id
            /\ r.real[1] = m[1] /\ r.real[2] = Traces!LastOf(m)
        BY <3>3
      <4> QED
        BY <1>2, <2>7, <2>8, <4>1
    <3> QED
      BY <3>1, <3>2, <3>3
  <2>10. Traces!TraceNamesOperation'
    BY <2>9 DEF Traces!TraceNamesOperation
  <2> QED
    BY <2>6, <2>10 DEF Traces!TraceInv
<1> QED
  BY <1>3, <1>8, <1>9

\* A nest of two functions or more, less the newest.
LEMMA PoppedNest ==
  ASSUME NEW m \in Seq(Nat \ {0}), Len(m) > 1
  PROVE  Traces!ButLast(m) \in Seq(Nat \ {0}) /\ Traces!ButLast(m) # <<>>
<1> DEFINE b == Traces!ButLast(m)
<1>1. b \in Seq(Nat \ {0}) /\ Len(b) = Len(m) - 1
  BY PoppedCall DEF Traces!ButLast
<1>2. Len(m) - 1 # 0
  <2> DEFINE k == Len(m)
  <2>1. k \in Nat /\ k > 1
    OBVIOUS
  <2> HIDE DEF k
  <2>2. k - 1 # 0
    BY <2>1
  <2> QED
    BY <2>2 DEF k
<1>3. Len(<<>>) = 0
  OBVIOUS
<1> QED
  BY <1>1, <1>2, <1>3

\* A record of one operation, in perfc_trace_attr() and perfc_trace_finii().
LEMMA OneRecord ==
  ASSUME NEW t \in Thread, NEW kind \in {"attr", "fini"}, NEW i, NEW sm, NEW real,
         sm # {}, i >= real, ~untraced'[t] => i = real,
         added' = IF tsdb THEN {[kind |-> kind, thread |-> t, id |-> i, sm |-> sm, real |-> real]} ELSE {}
  PROVE  Traces!TraceNamesOperation'
<1>1. ASSUME NEW r \in added'
      PROVE  /\ r.sm # {}
             /\ r.kind = "init" => r.id = Traces!LastOf(nest'[r.thread])
             /\ r.kind = "map" =>
                  /\ r.origin = r.real[1] /\ r.caller >= r.real[2]
                  /\ ~untraced'[r.thread] => r.caller = r.real[2]
             /\ r.kind \in {"attr", "fini"} =>
                  r.id >= r.real /\ (~untraced'[r.thread] => r.id = r.real)
  <2>1. r = [kind |-> kind, thread |-> t, id |-> i, sm |-> sm, real |-> real]
    BY <1>1
  <2>2. r.kind = kind /\ r.thread = t /\ r.id = i /\ r.sm = sm /\ r.real = real
    BY <2>1
  <2>3. r.kind # "map" /\ r.kind # "init"
    BY <2>2
  <2>4. r.id >= r.real /\ (~untraced'[r.thread] => r.id = r.real)
    BY <2>2
  <2> QED
    BY <2>2, <2>3, <2>4
<1> QED
  BY <1>1 DEF Traces!TraceNamesOperation

\* perfc_trace_finii(): the record and the pop of the function that ends.
LEMMA TraceFiniiKeeps ==
  ASSUME Traces!TraceInv, NEW t \in Thread, Traces!TraceFinii(t)
  PROVE  Traces!TraceInv'
<1> DEFINE m == nest[t]  m2 == Traces!ButLast(m)  s == stack[t]  f == untraced[t]  top == Traces!Top(t)
<1>1. /\ idgen \in Nat /\ f \in BOOLEAN /\ m \in Seq(Nat \ {0}) /\ untraced \in [Thread -> BOOLEAN]
      /\ stack = [u \in Thread |-> stack[u]] /\ Traces!StackInv(t) /\ Len(m) > 1
  BY DEF Traces!TraceInv, Traces!TraceType, Traces!InvalidId, Traces!TraceFinii
<1>2. /\ nest' = [nest EXCEPT ![t] = m2] /\ idgen' = idgen /\ untraced' = untraced
      /\ untraced' = [untraced EXCEPT ![t] = f] /\ UNCHANGED <<key, tsdb>>
  BY <1>1 DEF Traces!TraceFinii
<1>3. m2 \in Seq(Nat \ {0}) /\ m2 # <<>>
  BY <1>1, PoppedNest
<1>4. CASE top.id = 0
  <2>1. added' = {} /\ stack' = stack
    BY <1>4 DEF Traces!TraceFinii, Traces!InvalidId
  <2>2. s = Traces!NoStack
    BY <1>4, NoTop
  <2>3. stack' = [stack EXCEPT ![t] = s]
    BY <1>1, <2>1
  <2>4. idgen' \in Nat /\ idgen <= idgen'
    BY <1>1, <1>2
  <2>5. Traces!TraceType' /\ \A u \in Thread : Traces!StackInv(u)'
    BY <1>1, <1>2, <1>3, <2>2, <2>3, <2>4, TraceChanges
  <2> QED
    BY <2>1, <2>5, NoRecords DEF Traces!TraceInv
<1>5. CASE top.id # 0
  <2> DEFINE s2 == Traces!ButLast(s)
  <2>1. /\ s # Traces!NoStack /\ s \in Seq(Traces!Frame) /\ Len(s) \in Nat /\ Len(s) >= 1
        /\ Traces!SmTag(top.tag) # {} /\ top.id >= Traces!LastOf(m)
        /\ ~f => top.id = Traces!LastOf(m)
    BY <1>5, TopOfStack
  <2>2. /\ stack' = [stack EXCEPT ![t] = s2]
        /\ added' = IF tsdb THEN {[kind |-> "fini", thread |-> t, id |-> top.id,
                                   sm |-> Traces!SmTag(top.tag), real |-> Traces!LastOf(m)]} ELSE {}
    BY <1>5 DEF Traces!TraceFinii, Traces!InvalidId, Traces!Popped, Traces!Add
  <2>3. s2 \in Seq(Traces!Frame)
    BY <2>1, PoppedCall DEF Traces!ButLast
  <2>5. key /\ Traces!Follows(s, m, f, idgen)
    BY <1>1, <2>1 DEF Traces!StackInv
  <2>4. Traces!Follows(s2, m2, f, idgen') /\ idgen' \in Nat /\ idgen <= idgen'
    <3>1. Traces!Follows(s2, m2, f, idgen)
      <4> HIDE DEF f
      <4> QED
        BY <1>1, <2>1, <2>5, PopFollows
    <3> QED
      BY <1>1, <1>2, <3>1
  <2> HIDE DEF s2, m2
  <2>6. Traces!TraceType' /\ \A u \in Thread : Traces!StackInv(u)'
    BY <1>1, <1>2, <1>3, <2>2, <2>3, <2>4, <2>5, TraceChanges
  <2>7. Traces!TraceNamesOperation'
    <3>1. top.id >= Traces!LastOf(m) /\ (~untraced'[t] => top.id = Traces!LastOf(m))
      BY <1>2, <2>1
    <3> HIDE DEF top, m
    <3> QED
      BY <2>1, <2>2, <3>1, OneRecord DEF top, m
  <2> QED
    BY <2>6, <2>7 DEF Traces!TraceInv
<1> QED
  BY <1>4, <1>5

\* perfc_trace_attr(): the record of the function that the thread is in.
LEMMA TraceAttrKeeps ==
  ASSUME Traces!TraceInv, NEW t \in Thread, Traces!TraceAttr(t)
  PROVE  Traces!TraceInv'
<1> DEFINE top == Traces!Top(t)
<1>1. /\ top.id # 0 /\ UNCHANGED <<key, tsdb, idgen, stack, nest, untraced>>
      /\ added' = IF tsdb THEN {[kind |-> "attr", thread |-> t, id |-> top.id,
                                sm |-> Traces!SmTag(top.tag), real |-> Traces!LastOf(nest[t])]} ELSE {}
  BY DEF Traces!TraceAttr, Traces!InvalidId, Traces!Add
<1>2. /\ Traces!SmTag(top.tag) # {} /\ top.id >= Traces!LastOf(nest[t])
      /\ ~untraced'[t] => top.id = Traces!LastOf(nest[t])
  BY <1>1, TopOfStack
<1>3. Traces!TraceType' /\ \A u \in Thread : Traces!StackInv(u)'
  BY <1>1 DEF Traces!TraceInv, Traces!TraceType, Traces!StackInv
<1> HIDE DEF top
<1>4. Traces!TraceNamesOperation'
  BY <1>1, <1>2, OneRecord
<1> QED
  BY <1>3, <1>4 DEF Traces!TraceInv

\* A return without the record of the end leaves its frame on the stack.
LEMMA ReturnKeeps ==
  ASSUME Traces!TraceInv, NEW t \in Thread, Traces!ReturnUntraced(t)
  PROVE  Traces!TraceInv'
<1> DEFINE m == nest[t]  m2 == Traces!ButLast(m)  s == stack[t]
           f == untraced[t] \/ Traces!Top(t).id # 0
<1>1. /\ idgen \in Nat /\ m \in Seq(Nat \ {0}) /\ untraced[t] \in BOOLEAN
      /\ stack = [u \in Thread |-> stack[u]] /\ Traces!StackInv(t) /\ Len(m) > 1
  BY DEF Traces!TraceInv, Traces!TraceType, Traces!InvalidId, Traces!ReturnUntraced
<1>2. /\ nest' = [nest EXCEPT ![t] = m2] /\ stack' = [stack EXCEPT ![t] = s]
      /\ untraced' = [untraced EXCEPT ![t] = f] /\ added' = {} /\ UNCHANGED <<key, tsdb, idgen>>
  BY <1>1 DEF Traces!ReturnUntraced, Traces!InvalidId
<1>3. m2 \in Seq(Nat \ {0}) /\ m2 # <<>>
  BY <1>1, PoppedNest
<1>4. f \in BOOLEAN /\ (s = Traces!NoStack \/ f = TRUE) /\ idgen' \in Nat /\ idgen <= idgen'
  BY <1>1, <1>2, NoTop
<1>5. ASSUME s # Traces!NoStack
      PROVE  s \in Seq(Traces!Frame) /\ key /\ Traces!Follows(s, m2, f, idgen')
  <2>1. s \in Seq(Traces!Frame) /\ key /\ Traces!Follows(s, m, untraced[t], idgen)
    BY <1>1, <1>5 DEF Traces!StackInv, Traces!TraceInv, Traces!TraceType
  <2>2. Traces!Follows(s, m2, TRUE, idgen)
    BY <1>1, <2>1, PopFollows
  <2>3. f = TRUE /\ idgen' = idgen
    BY <1>2, <1>4, <1>5
  <2> QED
    BY <2>1, <2>2, <2>3
<1> HIDE DEF f, m2
<1>6. Traces!TraceType' /\ \A u \in Thread : Traces!StackInv(u)'
  BY <1>1, <1>2, <1>3, <1>4, <1>5, TraceChanges
<1> QED
  BY <1>2, <1>6, NoRecords DEF Traces!TraceInv

\* perfc_tls_fini(): no stack and no functions.
LEMMA TlsFiniKeeps ==
  ASSUME Traces!TraceInv, NEW t \in Thread, Traces!TlsFini(t)
  PROVE  Traces!TraceInv'
<1>1. /\ nest' = [nest EXCEPT ![t] = <<>>] /\ stack' = [stack EXCEPT ![t] = Traces!NoStack]
      /\ untraced' = [untraced EXCEPT ![t] = FALSE] /\ added' = {} /\ UNCHANGED <<key, tsdb, idgen>>
      /\ idgen \in Nat
  BY DEF Traces!TlsFini, Traces!TraceInv, Traces!TraceType
<1>2. <<>> \in Seq(Nat \ {0})
  OBVIOUS
<1>3. Traces!TraceType' /\ \A u \in Thread : Traces!StackInv(u)'
  <2>1. idgen' \in Nat /\ idgen <= idgen'
    BY <1>1
  <2> QED
    BY <1>1, <1>2, <2>1, TraceChanges
<1> QED
  BY <1>1, <1>3, NoRecords DEF Traces!TraceInv

\* Every step of tracing preserves the invariant.
LEMMA TraceStep ==
  ASSUME Traces!TraceInv, [Traces!Next]_(Traces!vars)
  PROVE  Traces!TraceInv'
<1>1. CASE (\E on \in BOOLEAN : Traces!SetTsdb(on)) \/ Traces!TsdbSetup
  <2>1. /\ UNCHANGED <<idgen, stack, nest, untraced>> /\ added' = {}
        /\ key' \in BOOLEAN /\ tsdb' \in BOOLEAN /\ (key => key')
    BY <1>1 DEF Traces!SetTsdb, Traces!TsdbSetup, Traces!TraceInv, Traces!TraceType
  <2>2. Traces!TraceType'
    BY <2>1 DEF Traces!TraceInv, Traces!TraceType
  <2>3. \A t \in Thread : Traces!StackInv(t)'
    BY <2>1 DEF Traces!TraceInv, Traces!StackInv
  <2> QED
    BY <2>1, <2>2, <2>3, NoRecords DEF Traces!TraceInv
<1>2. CASE UNCHANGED Traces!vars
  BY <1>2 DEF Traces!vars, Traces!TraceInv, Traces!TraceType, Traces!StackInv, Traces!TraceNamesOperation
<1> QED
  BY <1>1, <1>2, TlsIniKeeps, TraceIniiKeeps, TlsFiniKeeps, TraceAttrKeeps, TraceFiniiKeeps, ReturnKeeps
     DEF Traces!Next

\* Any number of threads, functions and calls: the records of a trace name the
\* operations that wrote them as long as each function ends with its finii, and from
\* then on the operation they began with and none older than the right one; the context
\* of an operation is that of its calls until its stack is full, and from then on names
\* none that has returned (perfc_trace_inii(), perfc_trace_finii(), opstack_push(),
\* opstack_pop()).
THEOREM OperationsCorrect == CSpec => []OperationsNamed
<1> DEFINE Inv == /\ cPart = "traces" => Traces!TraceInv
                  /\ cPart = "operations" => Operations!OperationInv
<1>1. CInit => Inv
  <2>1. ASSUME Traces!Init PROVE Traces!TraceInv
    <3>1. /\ key = FALSE /\ tsdb = FALSE /\ idgen = 0 /\ added = {}
          /\ stack = [t \in Thread |-> Traces!NoStack] /\ nest = [t \in Thread |-> <<>>]
          /\ untraced = [t \in Thread |-> FALSE]
      BY <2>1 DEF Traces!Init, Traces!InvalidId
    <3>2. <<>> \in Seq(Nat \ {0})
      OBVIOUS
    <3>3. Traces!TraceType /\ \A t \in Thread : stack[t] = Traces!NoStack
      BY <3>1, <3>2 DEF Traces!TraceType, Traces!InvalidId
    <3> QED
      BY <3>1, <3>3 DEF Traces!TraceInv, Traces!StackInv, Traces!TraceNamesOperation
  <2>2. ASSUME Operations!Init PROVE Operations!OperationInv
    <3>1. /\ <<>> \in Seq(Nat) /\ Len(<<>>) = 0 /\ 0 < OpDepth
          /\ Operations!Names(<<>>, <<>>, 0)
      BY OperationAssumption DEF Operations!Names
    <3>2. /\ counter = 0 /\ op = [t \in Thread |-> <<>>] /\ opCalls = [t \in Thread |-> <<>>]
          /\ filled = [t \in Thread |-> FALSE]
      BY <2>2 DEF Operations!Init
    <3> QED
      BY <3>1, <3>2 DEF Operations!OperationInv
  <2> QED
    BY <2>1, <2>2 DEF CInit
<1>2. Inv /\ [CNext]_cVars => Inv'
  <2>1. [CNext]_cVars /\ cPart' = "traces" => cPart = "traces" /\ [Traces!Next]_(Traces!vars)
    BY DEF CNext, cVars, traceVars, Traces!vars
  <2>2. [CNext]_cVars /\ cPart' = "operations"
          => cPart = "operations" /\ [Operations!Next]_(Operations!vars)
    BY DEF CNext, cVars, operationVars, Operations!vars
  <2> QED
    BY <2>1, <2>2, TraceStep, OperationStep
<1>3. Inv => OperationsNamed
  BY DEF OperationsNamed, Traces!TraceInv, Operations!OperationInv, Operations!ContextOfCalls,
     Operations!Names
<1> QED
  BY <1>1, <1>2, <1>3, PTL DEF CSpec

-----------------------------------------------------------------------------
(* The wrappers around the Motr client.                                    *)

\* Keys have a least one.
LEMMA LeastKey ==
  ASSUME NEW S \in SUBSET Nat, S # {}
  PROVE  Motr!MinOf(S) \in S /\ \A j \in S : Motr!MinOf(S) <= j
<1>1. PICK x \in S : \A y \in S : ~(<<y, x>> \in OpToRel(<, Nat))
  BY NatLessThanWellFounded, WFMin
<1>2. ASSUME NEW y \in S PROVE x <= y
  <2>1. ~(y < x)
    BY <1>1 DEF OpToRel
  <2> QED
    BY <2>1
<1> QED
  BY <1>2 DEF Motr!MinOf

\* A wrapper that checks enters Motr from a thread that Motr knows, or from the
\* one that is taken for the init thread.
LEMMA NoStrays ==
  ASSUME Motr!ServesInv, NEW t \in Thread, NEW o,
         o \in Motr!Checked => mcall[t].step \in {"motr", "delete"} \/ (my[t] /\ motrUp),
         Motr!Stray(t, o), UNCHANGED Motr!client
  PROVE  Motr!StraysInv'
<1>1. /\ \A u \in strays : replaced /\ u = initThread
      /\ replaced' = replaced /\ initThread' = initThread
  BY DEF Motr!ServesInv, Motr!StraysInv, Motr!client
<1>2. o \in Motr!Checked => Motr!Known(t) \/ (replaced /\ t = initThread)
  BY DEF Motr!ServesInv, Motr!ThreadInv, Motr!Known
<1> QED
  BY <1>1, <1>2 DEF Motr!Stray, Motr!StraysInv

\* A wrapper returns, or goes on to delete the object that it has opened.
LEMMA WrapperStep ==
  ASSUME Motr!ServesInv, NEW t \in Thread,
         NEW c \in {Motr!NoCall, [op |-> "delete_object", step |-> "delete"]},
         c.step = "delete" => my[t] /\ motrUp,
         mcall' = [mcall EXCEPT ![t] = c], UNCHANGED Motr!client, Motr!StraysInv'
  PROVE  Motr!ServesInv'
<1>1. /\ mcall'[t] = c /\ \A u \in Thread : u # t => mcall'[u] = mcall[u]
      /\ mcall' = [u \in Thread |-> mcall'[u]] /\ c = [op |-> c.op, step |-> c.step]
      /\ c.step \in {"idle", "delete"}
  BY DEF Motr!ServesInv, Motr!ClientInv, Motr!NoCall
<1>2. Motr!ClientInv'
  BY <1>1 DEF Motr!ServesInv, Motr!ClientInv, Motr!client
<1>3. ASSUME NEW u \in Thread PROVE Motr!ThreadInv(u)'
  <2>1. Motr!ThreadInv(u)
    BY DEF Motr!ServesInv
  <2>2. CASE u = t
    BY <1>1, <2>1, <2>2 DEF Motr!ThreadInv, Motr!client
  <2>3. CASE u # t
    BY <1>1, <2>1, <2>3 DEF Motr!ThreadInv, Motr!client
  <2> QED
    BY <2>2, <2>3
<1> QED
  BY <1>2, <1>3 DEF Motr!ServesInv

\* What a thread that gets to Motr is.
LEMMA GetsToMotr ==
  ASSUME Motr!ServesInv, NEW t \in Thread, NEW o \in Motr!Checked, Motr!Runs(t, o)
  PROVE  my[t] /\ motrUp
BY DEF Motr!Runs, Motr!At, Motr!ServesInv, Motr!ThreadInv, Motr!Checked, Motr!Unchecked

\* m0init(), from pthread_once() to the adoption of the thread.
LEMMA InitSteps ==
  ASSUME Motr!ServesInv, NEW t \in Thread,
         \/ Motr!M0Init(t) \/ Motr!OnceEnter(t) \/ Motr!OnceDone(t) \/ Motr!DoInit(t)
         \/ Motr!Adopt(t) \/ Motr!Reinit(t)
  PROVE  Motr!ServesInv'
<1>1. /\ Motr!ClientInv /\ Motr!ThreadInv(t)
      /\ my \in [Thread -> BOOLEAN] /\ mcall = [u \in Thread |-> mcall[u]]
  BY DEF Motr!ServesInv, Motr!ClientInv
<1>0. Motr!StraysInv'
  <2>1. strays' = strays /\ replaced' = replaced
    BY DEF Motr!M0Init, Motr!OnceEnter, Motr!OnceDone, Motr!DoInit, Motr!Adopt, Motr!AdoptIf,
       Motr!Reinit, Motr!client
  <2>2. CASE Motr!DoInit(t)
    <3>1. once = t /\ t # "done"
      BY <1>1, <2>2, MotrAssumption DEF Motr!DoInit, Motr!At, Motr!ThreadInv
    <3>2. ~replaced
      BY <1>1, <3>1 DEF Motr!ClientInv
    <3> QED
      BY <2>1, <3>2 DEF Motr!ServesInv, Motr!StraysInv
  <2>3. CASE ~Motr!DoInit(t)
    <3>1. initThread' = initThread
      BY <2>3 DEF Motr!M0Init, Motr!OnceEnter, Motr!OnceDone, Motr!Adopt, Motr!AdoptIf,
         Motr!Reinit, Motr!client
    <3> QED
      BY <2>1, <3>1 DEF Motr!ServesInv, Motr!StraysInv
  <2> QED
    BY <2>2, <2>3
<1>2. ASSUME NEW c, c = [op |-> c.op, step |-> c.step], mcall' = [mcall EXCEPT ![t] = c]
      PROVE  /\ mcall'[t] = c /\ \A u \in Thread : u # t => mcall'[u] = mcall[u]
             /\ mcall' = [u \in Thread |-> [op |-> mcall'[u].op, step |-> mcall'[u].step]]
  <2>1. /\ mcall'[t] = c /\ \A u \in Thread : u # t => mcall'[u] = mcall[u]
        /\ mcall' = [u \in Thread |-> mcall'[u]]
    BY <1>1, <1>2
  <2>2. \A u \in Thread : mcall'[u] = [op |-> mcall'[u].op, step |-> mcall'[u].step]
    BY <1>1, <1>2, <2>1 DEF Motr!ClientInv
  <2> QED
    BY <2>1, <2>2
<1>3. CASE Motr!M0Init(t) \/ Motr!Reinit(t)
  <2>1. PICK o : /\ mcall' = [mcall EXCEPT ![t] = [op |-> o, step |-> "once"]]
                 /\ o = "m0init" \/ motrUp \/ once # "done"
    BY <1>3 DEF Motr!M0Init, Motr!Reinit, Motr!Goto
  <2>2. PICK c : c = [op |-> o, step |-> "once"]
    OBVIOUS
  <2>3. /\ mcall'[t] = c /\ \A u \in Thread : u # t => mcall'[u] = mcall[u]
        /\ mcall' = [u \in Thread |-> [op |-> mcall'[u].op, step |-> mcall'[u].step]]
    BY <1>2, <2>1, <2>2
  <2>4. UNCHANGED <<once, inits, initThread, motrUp, my, adopted, replaced>>
    BY <1>3 DEF Motr!M0Init, Motr!Reinit, Motr!client
  <2>5. ASSUME NEW u \in Thread PROVE Motr!ThreadInv(u)'
    BY <2>1, <2>2, <2>3, <2>4 DEF Motr!ServesInv, Motr!ThreadInv
  <2> QED
    BY <1>0, <1>1, <2>3, <2>4, <2>5 DEF Motr!ServesInv, Motr!ClientInv
<1>4. CASE Motr!OnceEnter(t)
  <2>1. PICK c : c = [op |-> mcall[t].op, step |-> "doinit"]
    OBVIOUS
  <2>2. /\ mcall'[t] = c /\ \A u \in Thread : u # t => mcall'[u] = mcall[u]
        /\ mcall' = [u \in Thread |-> [op |-> mcall'[u].op, step |-> mcall'[u].step]]
    BY <1>2, <1>4, <2>1 DEF Motr!OnceEnter, Motr!Goto
  <2>3. /\ UNCHANGED <<inits, initThread, motrUp, my, adopted, replaced>>
        /\ once = "new" /\ once' = t /\ mcall[t].step = "once"
    BY <1>4 DEF Motr!OnceEnter, Motr!At
  <2>4. t # "new" /\ t # "done"
    BY MotrAssumption
  <2>5. ASSUME NEW u \in Thread PROVE Motr!ThreadInv(u)'
    <3>1. Motr!ThreadInv(u) /\ u # "new"
      BY MotrAssumption DEF Motr!ServesInv
    <3> QED
      BY <2>1, <2>2, <2>3, <2>4, <3>1 DEF Motr!ThreadInv
  <2> QED
    BY <1>0, <1>1, <2>2, <2>3, <2>4, <2>5 DEF Motr!ServesInv, Motr!ClientInv
<1>5. CASE Motr!OnceDone(t)
  <2>1. PICK c : c = [op |-> mcall[t].op, step |-> "adopt"]
    OBVIOUS
  <2>2. /\ mcall'[t] = c /\ \A u \in Thread : u # t => mcall'[u] = mcall[u]
        /\ mcall' = [u \in Thread |-> [op |-> mcall'[u].op, step |-> mcall'[u].step]]
    BY <1>2, <1>5, <2>1 DEF Motr!OnceDone, Motr!Goto
  <2>3. /\ UNCHANGED <<once, inits, initThread, motrUp, my, adopted, replaced>>
        /\ once = "done" /\ mcall[t].step = "once"
    BY <1>5 DEF Motr!OnceDone, Motr!client, Motr!At
  <2>4. ASSUME NEW u \in Thread PROVE Motr!ThreadInv(u)'
    BY <2>1, <2>2, <2>3 DEF Motr!ServesInv, Motr!ThreadInv
  <2> QED
    BY <1>0, <1>1, <2>2, <2>3, <2>4 DEF Motr!ServesInv, Motr!ClientInv
<1>6. CASE Motr!DoInit(t)
  <2>1. PICK c : c = [op |-> mcall[t].op, step |-> "adopt"]
    OBVIOUS
  <2>2. /\ mcall'[t] = c /\ \A u \in Thread : u # t => mcall'[u] = mcall[u]
        /\ mcall' = [u \in Thread |-> [op |-> mcall'[u].op, step |-> mcall'[u].step]]
    BY <1>2, <1>6, <2>1 DEF Motr!DoInit, Motr!Goto
  <2>3. /\ UNCHANGED <<my, adopted, replaced>> /\ mcall[t].step = "doinit" /\ once = t
        /\ once' = "done" /\ motrUp' = TRUE /\ inits' = inits + 1
    BY <1>1, <1>6 DEF Motr!DoInit, Motr!At, Motr!ThreadInv
  <2>4. t # "done"
    BY MotrAssumption
  <2>5. ASSUME NEW u \in Thread PROVE Motr!ThreadInv(u)'
    <3>1. Motr!ThreadInv(u)
      BY DEF Motr!ServesInv
    <3> QED
      BY <2>1, <2>2, <2>3, <2>4, <3>1 DEF Motr!ThreadInv
  <2> QED
    BY <1>0, <1>1, <2>2, <2>3, <2>4, <2>5 DEF Motr!ServesInv, Motr!ClientInv
<1>7. CASE Motr!Adopt(t)
  <2>1. PICK c : /\ c = IF mcall[t].op = "m0init" THEN Motr!NoCall
                        ELSE [op |-> mcall[t].op, step |-> "motr"]
    OBVIOUS
  <2>2. /\ c = [op |-> c.op, step |-> c.step] /\ c.step \in {"idle", "motr"}
        /\ c.step = "motr" => mcall[t].op # "m0init"
    BY <2>1 DEF Motr!NoCall
  <2>3. mcall' = [mcall EXCEPT ![t] = c]
    BY <1>7, <2>1 DEF Motr!Adopt, Motr!AdoptIf, Motr!Return, Motr!Goto
  <2>4. /\ mcall'[t] = c /\ \A u \in Thread : u # t => mcall'[u] = mcall[u]
        /\ mcall' = [u \in Thread |-> [op |-> mcall'[u].op, step |-> mcall'[u].step]]
    BY <1>2, <2>2, <2>3
  <2>5. /\ UNCHANGED <<once, inits, initThread, motrUp, replaced>> /\ mcall[t].step = "adopt"
        /\ adopted' = (IF t # initThread THEN adopted \cup {t} ELSE adopted)
        /\ my' = [my EXCEPT ![t] = TRUE]
    BY <1>7 DEF Motr!Adopt, Motr!AdoptIf, Motr!At
  <2>6. once = "done" /\ (mcall[t].op = "m0init" \/ motrUp)
    BY <1>1, <2>5 DEF Motr!ThreadInv
  <2>7. my' \in [Thread -> BOOLEAN] /\ my'[t] /\ \A u \in Thread : u # t => my'[u] = my[u]
    BY <1>1, <2>5
  <2>8. ASSUME NEW u \in Thread PROVE Motr!ThreadInv(u)'
    <3>1. Motr!ThreadInv(u) /\ adopted \subseteq adopted' /\ (t # initThread => t \in adopted')
      BY <2>5 DEF Motr!ServesInv
    <3>2. CASE u = t
      BY <2>2, <2>4, <2>5, <2>6, <2>7, <3>1, <3>2 DEF Motr!ThreadInv
    <3>3. CASE u # t
      BY <2>4, <2>5, <2>7, <3>1, <3>3 DEF Motr!ThreadInv
    <3> QED
      BY <3>2, <3>3
  <2> QED
    BY <1>0, <1>1, <2>4, <2>5, <2>7, <2>8 DEF Motr!ServesInv, Motr!ClientInv
<1> QED
  BY <1>3, <1>4, <1>5, <1>6, <1>7

\* m0fini(), and the end of a thread.
LEMMA FiniSteps ==
  ASSUME Motr!ServesInv, NEW t \in Thread, Motr!M0Fini(t) \/ Motr!ThreadExit(t)
  PROVE  Motr!ServesInv'
<1>1. CASE Motr!M0Fini(t)
  <2>1. /\ UNCHANGED <<once, inits, initThread, my, adopted, replaced, mcall, strays>>
        /\ \A u \in Thread : mcall[u].step = "idle"
    BY <1>1 DEF Motr!M0Fini, Motr!NoCall
  <2>2. ASSUME NEW u \in Thread PROVE Motr!ThreadInv(u)'
    BY <2>1 DEF Motr!ServesInv, Motr!ThreadInv
  <2> QED
    BY <2>1, <2>2 DEF Motr!ServesInv, Motr!ClientInv, Motr!StraysInv
<1>2. CASE Motr!ThreadExit(t)
  <2>1. /\ UNCHANGED <<once, inits, initThread, motrUp, mcall, strays>>
        /\ mcall[t].step = "idle" /\ my' = [my EXCEPT ![t] = FALSE] /\ adopted' = adopted \ {t}
        /\ replaced' = (replaced \/ t = initThread)
    BY <1>2 DEF Motr!ThreadExit, Motr!NoCall
  <2>2. my' \in [Thread -> BOOLEAN] /\ ~my'[t] /\ \A u \in Thread : u # t => my'[u] = my[u]
    BY <2>1 DEF Motr!ServesInv, Motr!ClientInv
  <2>3. ASSUME NEW u \in Thread PROVE Motr!ThreadInv(u)'
    <3>1. Motr!ThreadInv(u)
      BY DEF Motr!ServesInv
    <3>2. CASE u = t
      BY <2>1, <2>2, <3>1, <3>2 DEF Motr!ThreadInv
    <3>3. CASE u # t
      BY <2>1, <2>2, <3>1, <3>3 DEF Motr!ThreadInv
    <3> QED
      BY <3>2, <3>3
  <2>4. once = "done"
    BY <1>2 DEF Motr!ServesInv, Motr!ThreadInv, Motr!ThreadExit
  <2> QED
    BY <2>1, <2>2, <2>3, <2>4 DEF Motr!ServesInv, Motr!ClientInv, Motr!StraysInv
<1> QED
  BY <1>1, <1>2

\* The wrappers: whatever they do at Motr.
LEMMA WrapperCalls ==
  ASSUME Motr!ServesInv, NEW t \in Thread,
         \/ \E o \in Motr!Checked : Motr!Read(t, o)
         \/ \E f \in Fid : Motr!Indices(t, f) \/ \E k \in MotrKey : Motr!Write(t, f, k)
         \/ \E f \in Fid, o \in {"iter_find", "pattern"}, x \in BOOLEAN : Motr!First(t, f, o, x)
         \/ \E o \in Obj : Motr!Objects(t, o)
         \/ \E x \in BOOLEAN : Motr!IterNext(t, x)
         \/ Motr!IterFini(t)
  PROVE  Motr!ServesInv'
<1>1. ASSUME NEW o, o \in Motr!Checked => my[t] /\ motrUp, Motr!Stray(t, o),
             UNCHANGED Motr!client, Motr!Return(t)
      PROVE  Motr!ServesInv'
  <2>1. Motr!StraysInv'
    BY <1>1, NoStrays
  <2>2. PICK c : c = Motr!NoCall
    OBVIOUS
  <2>3. mcall' = [mcall EXCEPT ![t] = c] /\ c.step = "idle"
    BY <1>1, <2>2 DEF Motr!Return, Motr!NoCall
  <2> QED
    BY <1>1, <2>1, <2>2, <2>3, WrapperStep
<1>2. ASSUME NEW o \in Motr!Checked, Motr!Read(t, o) PROVE Motr!ServesInv'
  <2>1. Motr!Runs(t, o) /\ Motr!Stray(t, o) /\ UNCHANGED Motr!client /\ Motr!Return(t)
    BY <1>2 DEF Motr!Read, Motr!Runs
  <2> QED
    BY <1>1, <2>1, GetsToMotr
<1>3. ASSUME NEW f \in Fid, Motr!Indices(t, f) PROVE Motr!ServesInv'
  <2>1. PICK o \in {"idx_create", "idx_delete"} :
          Motr!Stray(t, o) /\ UNCHANGED Motr!client /\ Motr!Return(t)
    BY <1>3 DEF Motr!Indices
  <2>2. o \notin Motr!Checked
    BY DEF Motr!Checked
  <2> QED
    BY <1>1, <2>1, <2>2
<1>4. ASSUME NEW f \in Fid, NEW k \in MotrKey, Motr!Write(t, f, k) PROVE Motr!ServesInv'
  <2>1. PICK o \in {"kvs_set", "kvs4_set", "list_set", "kvs_del"} :
          Motr!Runs(t, o) /\ Motr!Stray(t, o) /\ UNCHANGED Motr!client /\ Motr!Return(t)
    BY <1>4 DEF Motr!Write
  <2>2. o \in Motr!Checked
    BY DEF Motr!Checked
  <2> QED
    BY <1>1, <2>1, <2>2, GetsToMotr
<1>5. ASSUME NEW f \in Fid, NEW o \in {"iter_find", "pattern"}, NEW x, Motr!First(t, f, o, x)
      PROVE  Motr!ServesInv'
  <2>1. o \notin Motr!Checked /\ Motr!Stray(t, o) /\ UNCHANGED Motr!client /\ Motr!Return(t)
    BY <1>5 DEF Motr!First, Motr!Checked
  <2> QED
    BY <1>1, <2>1
<1>6. ASSUME NEW b \in Obj, Motr!Objects(t, b) PROVE Motr!ServesInv'
  <2>1. \A o \in {"create_object", "delete_object"} : o \in Motr!Checked
    BY DEF Motr!Checked
  <2>2. CASE Motr!Runs(t, "create_object") /\ Motr!Stray(t, "create_object") /\ Motr!Return(t)
    BY <1>1, <1>6, <2>1, <2>2, GetsToMotr DEF Motr!Objects
  <2>3. CASE Motr!At(t, "delete") /\ Motr!Stray(t, "delete_object") /\ Motr!Return(t)
    <3>1. my[t] /\ motrUp
      BY <2>3 DEF Motr!ServesInv, Motr!ThreadInv, Motr!At
    <3> QED
      BY <1>1, <1>6, <2>3, <3>1 DEF Motr!Objects
  <2>4. CASE /\ Motr!Runs(t, "delete_object") /\ Motr!Stray(t, "delete_object")
             /\ Motr!Goto(t, "delete_object", "delete")
    <3>1. my[t] /\ motrUp
      BY <2>1, <2>4, GetsToMotr
    <3>2. Motr!StraysInv'
      BY <1>6, <2>4, <3>1, NoStrays DEF Motr!Objects
    <3>3. PICK c : c = [op |-> "delete_object", step |-> "delete"]
      OBVIOUS
    <3>4. mcall' = [mcall EXCEPT ![t] = c] /\ UNCHANGED Motr!client
      BY <1>6, <2>4, <3>3 DEF Motr!Goto, Motr!Objects
    <3> QED
      BY <3>1, <3>2, <3>3, <3>4, WrapperStep
  <2> QED
    BY <1>6, <2>2, <2>3, <2>4 DEF Motr!Objects
<1>7. CASE (\E x \in BOOLEAN : Motr!IterNext(t, x)) \/ Motr!IterFini(t)
  <2>1. UNCHANGED <<once, inits, initThread, motrUp, my, adopted, replaced, mcall, strays>>
    BY <1>7 DEF Motr!IterNext, Motr!IterFrom, Motr!IterFini, Motr!client
  <2> QED
    BY <2>1 DEF Motr!ServesInv, Motr!ClientInv, Motr!ThreadInv, Motr!StraysInv
<1> QED
  BY <1>2, <1>3, <1>4, <1>5, <1>6, <1>7

\* An iteration loses the keys that are deleted, and only those.
LEMMA IterLoses ==
  ASSUME NEW i, Motr!IterInv(i), NEW away, NEW j, j = [i EXCEPT !.stay = @ \ away],
         j.stay # {} => kvIndex'[j.fid] # Null /\ j.stay \subseteq kvIndex'[j.fid]
  PROVE  Motr!IterInv(j)'
<1>1. /\ j = [on |-> i.on, fid |-> i.fid, at |-> i.at, flags |-> i.flags, refused |-> i.refused,
              seen |-> i.seen, stay |-> i.stay \ away]
      /\ i.seen \in Seq(MotrPrefix) /\ i.stay \subseteq MotrPrefix
  BY DEF Motr!IterInv
<1>2. /\ j.on = i.on /\ j.fid = i.fid /\ j.at = i.at /\ j.flags = i.flags
      /\ j.refused = i.refused /\ j.seen = i.seen /\ j.stay \subseteq i.stay
      /\ j = [on |-> j.on, fid |-> j.fid, at |-> j.at, flags |-> j.flags, refused |-> j.refused,
              seen |-> j.seen, stay |-> j.stay]
  BY <1>1
<1>3. \A k : (Motr!Shows(i, k) => Motr!Shows(j, k)) /\ (Motr!Before(i, k) <=> Motr!Before(j, k))
  BY <1>2 DEF Motr!Shows, Motr!Before
<1> QED
  BY <1>1, <1>2, <1>3 DEF Motr!IterInv

\* Steps that leave the indices and the iterations alone.
LEMMA IterationsStay ==
  ASSUME Motr!IterationsInv, UNCHANGED <<kvIndex, iter>>
  PROVE  Motr!IterationsInv'
BY DEF Motr!IterationsInv, Motr!IterInv, Motr!Shows, Motr!Before

\* An index gets new contents, which the iterations over it allow for.
LEMMA IndexStep ==
  ASSUME Motr!IterationsInv, NEW f \in Fid, NEW S, S = Null \/ S \in SUBSET MotrKey,
         NEW away, kvIndex' = [kvIndex EXCEPT ![f] = S],
         \/ Motr!Deleted(f, away)
         \/ away = {} /\ UNCHANGED iter,
         kvIndex[f] # Null =>
           MotrKey \subseteq away \/ (S # Null /\ kvIndex[f] \ away \subseteq S)
  PROVE  Motr!IterationsInv'
<1>1. /\ kvIndex'[f] = S /\ \A g \in Fid : g # f => kvIndex'[g] = kvIndex[g]
      /\ kvIndex' = [g \in Fid |-> kvIndex'[g]]
      /\ iter = [t \in Thread |-> iter[t]]
  BY DEF Motr!IterationsInv
<1>2. \A g \in Fid : kvIndex'[g] # Null => kvIndex'[g] \subseteq MotrKey
  BY <1>1 DEF Motr!IterationsInv
<1>3. iter' = [t \in Thread |-> iter'[t]]
  BY <1>1 DEF Motr!Deleted
<1>4. ASSUME NEW t \in Thread PROVE Motr!IterInv(iter[t])'
  <2>1. PICK i : i = iter[t]
    OBVIOUS
  <2>2. Motr!IterInv(i)
    BY <2>1 DEF Motr!IterationsInv
  <2>3. PICK j : j = iter'[t]
    OBVIOUS
  <2>4. /\ i = [on |-> i.on, fid |-> i.fid, at |-> i.at, flags |-> i.flags, refused |-> i.refused,
                seen |-> i.seen, stay |-> i.stay]
        /\ i.stay \subseteq MotrPrefix
        /\ i.stay # {} => i.fid \in Fid /\ kvIndex[i.fid] # Null /\ i.stay \subseteq kvIndex[i.fid]
    BY <2>2 DEF Motr!IterInv
  <2>5. PICK g : j = [i EXCEPT !.stay = @ \ g] /\ (i.fid = f => g = away)
    <3>1. CASE Motr!Deleted(f, away) /\ i.fid = f
      BY <2>1, <2>3, <3>1 DEF Motr!Deleted
    <3>2. CASE ~(Motr!Deleted(f, away) /\ i.fid = f)
      <4>1. j = i /\ (i.fid = f => away = {})
        BY <2>1, <2>3, <3>2 DEF Motr!Deleted
      <4>2. i = [i EXCEPT !.stay = @ \ {}]
        BY <2>4
      <4> QED
        BY <4>1, <4>2
    <3> QED
      BY <3>1, <3>2
  <2>6. j.fid = i.fid /\ j.stay = i.stay \ g
    BY <2>4, <2>5
  <2>7. MotrPrefix \subseteq MotrKey
    BY MotrAssumption
  <2>8. j.stay # {} => kvIndex'[j.fid] # Null /\ j.stay \subseteq kvIndex'[j.fid]
    BY <1>1, <2>4, <2>5, <2>6, <2>7
  <2>9. Motr!IterInv(j)'
    BY <2>2, <2>5, <2>8, IterLoses
  <2> QED
    BY <2>3, <2>9 DEF Motr!IterInv, Motr!Shows, Motr!Before
<1> QED
  BY <1>1, <1>2, <1>3, <1>4 DEF Motr!IterationsInv

\* One iteration takes a step, the indices stay.
LEMMA IterStep ==
  ASSUME Motr!IterationsInv, NEW t \in Thread, NEW j, Motr!IterInv(j),
         iter' = [iter EXCEPT ![t] = j], UNCHANGED kvIndex
  PROVE  Motr!IterationsInv'
<1>1. /\ iter'[t] = j /\ \A u \in Thread : u # t => iter'[u] = iter[u]
      /\ iter' = [u \in Thread |-> iter'[u]]
  BY DEF Motr!IterationsInv
<1>2. ASSUME NEW u \in Thread PROVE Motr!IterInv(iter[u])'
  <2>1. PICK i : i = iter'[u]
    OBVIOUS
  <2>2. Motr!IterInv(i)
    BY <1>1, <2>1 DEF Motr!IterationsInv
  <2> QED
    BY <2>1, <2>2 DEF Motr!IterInv, Motr!Shows, Motr!Before
<1> QED
  BY <1>1, <1>2 DEF Motr!IterationsInv

\* An iteration that has not begun, or that has been freed.
LEMMA NoIterInv == Motr!IterInv(Motr!NoIter)
<1>1. PICK i : i = Motr!NoIter
  OBVIOUS
<1>2. /\ i.on = "no" /\ i.at = 0 /\ i.flags = "none" /\ i.refused = Null /\ i.seen = <<>>
      /\ i.stay = {}
      /\ i = [on |-> i.on, fid |-> i.fid, at |-> i.at, flags |-> i.flags, refused |-> i.refused,
              seen |-> i.seen, stay |-> i.stay]
  BY <1>1 DEF Motr!NoIter
<1>3. Motr!IterInv(i)
  BY <1>2 DEF Motr!IterInv
<1> QED
  BY <1>1, <1>3

\* What the iterator finds: the least key that follows, if any.
LEMMA FollowingKeys ==
  ASSUME Motr!IterationsInv, NEW f \in Fid, NEW from \in Nat, NEW x \in BOOLEAN,
         NEW m, m = Motr!MinOf(Motr!Following(f, from, x)), Motr!Following(f, from, x) # {}
  PROVE  /\ m \in Motr!Following(f, from, x) /\ m \in MotrKey /\ m \in Nat
         /\ kvIndex[f] # Null /\ from <= m /\ (x => from < m)
         /\ \A k \in Motr!Following(f, from, x) : m <= k
<1>1. /\ Motr!Following(f, from, x) \subseteq MotrKey /\ kvIndex[f] # Null
      /\ \A k \in Motr!Following(f, from, x) : IF x THEN k > from ELSE k >= from
  BY DEF Motr!Following, Motr!IterationsInv
<1>2. Motr!Following(f, from, x) \in SUBSET Nat
  BY <1>1, MotrAssumption
<1>3. m \in Motr!Following(f, from, x) /\ \A k \in Motr!Following(f, from, x) : m <= k
  BY <1>2, LeastKey
<1> QED
  BY <1>1, <1>2, <1>3

\* A key is found, and shown: the one that follows the point that the search started
\* from.  The next search starts after it, or, if it was refused, where this one did.
LEMMA FoundStep ==
  ASSUME Motr!IterationsInv, NEW t \in Thread, NEW i, Motr!IterInv(i),
         i.on \in {"iter_find", "pattern"}, i.fid \in Fid, UNCHANGED kvIndex,
         Motr!Following(i.fid, i.at, i.flags = "exclude") # {}, NEW x \in BOOLEAN,
         iter' = [iter EXCEPT ![t] =
           Motr!Found(i, Motr!MinOf(Motr!Following(i.fid, i.at, i.flags = "exclude")), x)]
  PROVE  Motr!IterationsInv'
<1>1. PICK ks : ks = Motr!Following(i.fid, i.at, i.flags = "exclude")
  OBVIOUS
<1>2. PICK m : m = Motr!MinOf(ks)
  OBVIOUS
<1>3. /\ i.seen \in Seq(MotrPrefix) /\ i.stay \subseteq MotrPrefix /\ i.at \in Nat
      /\ i = [on |-> i.on, fid |-> i.fid, at |-> i.at, flags |-> i.flags, refused |-> i.refused,
              seen |-> i.seen, stay |-> i.stay]
      /\ \A n \in 1..Len(i.seen) : Motr!Before(i, i.seen[n])
      /\ \A n, k \in 1..Len(i.seen) : n < k => i.seen[n] < i.seen[k]
      /\ i.stay # {} => kvIndex[i.fid] # Null /\ i.stay \subseteq kvIndex[i.fid]
      /\ i.on = "iter_find" => \E k \in MotrPrefix : k <= i.at
      /\ \A k \in i.stay : Motr!Before(i, k) => Motr!Shows(i, k)
  BY DEF Motr!IterInv
<1>4. MotrKey \subseteq Nat /\ MotrPrefix \subseteq MotrKey
  BY MotrAssumption
<1>5. /\ m \in ks /\ m \in MotrKey /\ m \in Nat /\ i.at <= m /\ (i.flags = "exclude" => i.at < m)
      /\ \A k \in ks : m <= k
  BY <1>1, <1>2, <1>3, FollowingKeys
<1>6. \A k \in i.stay : Motr!Shows(i, k) \/ k \in ks
  <2> SUFFICES ASSUME NEW k \in i.stay, ~Motr!Before(i, k) PROVE k \in ks
    BY <1>3
  <2>1. k \in Nat /\ k \in kvIndex[i.fid] /\ kvIndex[i.fid] # Null
    BY <1>3, MotrAssumption
  <2>2. IF i.flags = "exclude" THEN k > i.at ELSE k >= i.at
    BY <1>3, <2>1 DEF Motr!Before
  <2> QED
    BY <1>1, <2>1, <2>2 DEF Motr!Following
<1>7. CASE m \in MotrPrefix /\ ~x
  <2>1. PICK j : j = [i EXCEPT !.refused = m]
    OBVIOUS
  <2>2. iter' = [iter EXCEPT ![t] = j]
    BY <1>1, <1>2, <1>7, <2>1 DEF Motr!Found
  <2>3. /\ j.on = i.on /\ j.fid = i.fid /\ j.at = i.at /\ j.flags = i.flags /\ j.refused = m
        /\ j.seen = i.seen /\ j.stay = i.stay
        /\ j = [on |-> j.on, fid |-> j.fid, at |-> j.at, flags |-> j.flags, refused |-> j.refused,
                seen |-> j.seen, stay |-> j.stay]
    BY <1>3, <2>1
  <2>4. \A k : (Motr!Shows(i, k) => Motr!Shows(j, k)) /\ (Motr!Before(i, k) <=> Motr!Before(j, k))
    BY <2>3 DEF Motr!Shows, Motr!Before
  <2>5. Motr!IterInv(j)
    BY <1>3, <1>5, <2>3, <2>4 DEF Motr!IterInv
  <2> QED
    BY <2>2, <2>5, IterStep
<1>8. CASE ~(m \in MotrPrefix /\ ~x)
  <2>3. PICK s : s = IF m \in MotrPrefix THEN Append(i.seen, m) ELSE i.seen
    OBVIOUS
  <2>4. PICK j : j = [on |-> i.on, fid |-> i.fid, at |-> m, flags |-> "exclude", refused |-> Null,
                      seen |-> s, stay |-> i.stay]
    OBVIOUS
  <2>5. iter' = [iter EXCEPT ![t] = j]
    <3>1. Motr!Found(i, m, x) = [i EXCEPT !.at = m, !.flags = "exclude", !.refused = Null, !.seen = s]
      BY <1>3, <1>8, <2>3 DEF Motr!Found
    <3>2. Motr!Found(i, m, x) = j
      BY <1>3, <2>4, <3>1
    <3> QED
      BY <1>1, <1>2, <3>2
  <2>6. /\ j.on = i.on /\ j.fid = i.fid /\ j.at = m /\ j.flags = "exclude" /\ j.refused = Null
        /\ j.seen = s /\ j.stay = i.stay
        /\ j = [on |-> j.on, fid |-> j.fid, at |-> j.at, flags |-> j.flags, refused |-> j.refused,
                seen |-> j.seen, stay |-> j.stay]
    BY <2>4
  <2>7. PICK n \in Nat : n = Len(i.seen)
    BY <1>3
  <2>8. /\ s \in Seq(MotrPrefix)
        /\ \A k \in 1..n : k \in 1..Len(s) /\ s[k] = i.seen[k]
        /\ \A k \in 1..Len(s) : k \in 1..n \/ (k = n + 1 /\ s[k] = m)
        /\ m \in MotrPrefix => n + 1 \in 1..Len(s) /\ s[n + 1] = m
    <3>1. CASE m \in MotrPrefix
      <4>1. /\ s = Append(i.seen, m) /\ s \in Seq(MotrPrefix) /\ Len(s) = n + 1
            /\ s[n + 1] = m /\ \A k \in 1..n : s[k] = i.seen[k]
        BY <1>3, <2>3, <2>7, <3>1, AppendProperties
      <4> QED
        BY <2>7, <4>1
    <3>2. CASE m \notin MotrPrefix
      BY <1>3, <2>3, <2>7, <3>2
    <3> QED
      BY <3>1, <3>2
  <2>9. ASSUME NEW k \in 1..n PROVE i.seen[k] \in MotrPrefix /\ i.seen[k] \in Nat /\ i.seen[k] < m
    <3>1. i.seen[k] \in MotrPrefix /\ i.seen[k] \in Nat /\ Motr!Before(i, i.seen[k])
      BY <1>3, <2>7, MotrAssumption
    <3> QED
      BY <1>3, <1>5, <3>1 DEF Motr!Before
  <2>10. \A k \in 1..Len(s) : Motr!Before(j, s[k])
    BY <1>5, <2>6, <2>8, <2>9 DEF Motr!Before
  <2>11. \A k, l \in 1..Len(s) : k < l => s[k] < s[l]
    <3> SUFFICES ASSUME NEW k \in 1..Len(s), NEW l \in 1..Len(s), k < l
                 PROVE  s[k] < s[l]
      OBVIOUS
    <3>1. k \in 1..n
      BY <2>7, <2>8
    <3>2. CASE l \in 1..n
      BY <1>3, <2>7, <2>8, <3>1, <3>2
    <3>3. CASE l = n + 1 /\ s[l] = m
      BY <2>8, <2>9, <3>1, <3>3
    <3> QED
      BY <2>8, <3>2, <3>3
  <2>12. \A k \in i.stay : Motr!Before(j, k) => Motr!Shows(j, k)
    <3> SUFFICES ASSUME NEW k \in i.stay, Motr!Before(j, k) PROVE Motr!Shows(j, k)
      OBVIOUS
    <3>0. k \in Nat /\ k \in MotrPrefix /\ k <= m
      BY <1>3, <1>5, <2>6, MotrAssumption DEF Motr!Before
    <3>1. CASE Motr!Shows(i, k)
      BY <2>6, <2>7, <2>8, <3>1 DEF Motr!Shows
    <3>2. CASE k \in ks
      <4>1. k = m
        BY <1>5, <3>0, <3>2
      <4> QED
        BY <2>6, <2>8, <3>0, <4>1 DEF Motr!Shows
    <3> QED
      BY <1>6, <3>1, <3>2
  <2>13. i.on = "iter_find" => m \in MotrKey /\ \E k \in MotrPrefix : k <= m
    <3> SUFFICES ASSUME NEW k \in MotrPrefix, k <= i.at PROVE k <= m
      BY <1>3, <1>5
    <3> QED
      BY <1>3, <1>5, MotrAssumption
  <2>14. Motr!IterInv(j)
    BY <1>3, <1>5, <2>6, <2>8, <2>10, <2>11, <2>12, <2>13 DEF Motr!IterInv
  <2> QED
    BY <2>5, <2>14, IterStep
<1> QED
  BY <1>7, <1>8

\* The first step of an iteration or of a pattern listing.
LEMMA FirstStep ==
  ASSUME Motr!IterationsInv, NEW t \in Thread, NEW f \in Fid, NEW x \in BOOLEAN,
         NEW o \in {"iter_find", "pattern"}, Motr!First(t, f, o, x)
  PROVE  Motr!IterationsInv'
<1>1. PICK from : from = IF o = "iter_find" THEN Motr!MinOf(MotrPrefix) ELSE 0
  OBVIOUS
<1>2. MotrPrefix \in SUBSET Nat /\ MotrPrefix # {} /\ MotrPrefix \subseteq MotrKey
  BY MotrAssumption
<1>3. /\ from \in Nat /\ \A k \in MotrPrefix : from <= k
      /\ o = "iter_find" => from \in MotrPrefix
  <2>1. /\ Motr!MinOf(MotrPrefix) \in MotrPrefix
        /\ \A k \in MotrPrefix : Motr!MinOf(MotrPrefix) <= k
    BY <1>2, LeastKey
  <2>2. CASE o = "iter_find"
    <3>1. from = Motr!MinOf(MotrPrefix)
      BY <1>1, <2>2
    <3> QED
      BY <1>2, <2>1, <3>1
  <2>3. CASE o # "iter_find"
    <3>1. from = 0
      BY <1>1, <2>3
    <3>2. \A k \in Nat : 0 <= k
      OBVIOUS
    <3> QED
      BY <1>2, <2>3, <3>1, <3>2
  <2> QED
    BY <2>2, <2>3
<1>4. UNCHANGED kvIndex
  BY DEF Motr!First, Motr!store
<1>5. CASE Motr!Following(f, from, FALSE) = {}
  <2>1. iter' = [iter EXCEPT ![t] = Motr!NoIter]
    BY <1>1, <1>5 DEF Motr!First
  <2>2. PICK j : j = Motr!NoIter
    OBVIOUS
  <2> QED
    BY <1>4, <2>1, <2>2, NoIterInv, IterStep
<1>6. CASE Motr!Following(f, from, FALSE) # {}
  <2>1. PICK i : i = [on |-> o, fid |-> f, at |-> from, flags |-> "none", refused |-> Null,
                      seen |-> <<>>, stay |-> kvIndex[f] \cap MotrPrefix]
    OBVIOUS
  <2>2. /\ i.on = o /\ i.fid = f /\ i.at = from /\ i.flags = "none" /\ i.refused = Null
        /\ i.seen = <<>> /\ i.stay = kvIndex[f] \cap MotrPrefix
        /\ i = [on |-> i.on, fid |-> i.fid, at |-> i.at, flags |-> i.flags, refused |-> i.refused,
                seen |-> i.seen, stay |-> i.stay]
    BY <2>1
  <2>3. kvIndex[f] # Null
    BY <1>6 DEF Motr!Following
  <2>4. \A k \in i.stay : ~Motr!Before(i, k)
    <3> SUFFICES ASSUME NEW k \in i.stay PROVE ~(k < from)
      BY <2>2 DEF Motr!Before
    <3>1. k \in MotrPrefix /\ k \in Nat
      BY <1>2, <2>2
    <3> QED
      BY <1>3, <3>1
  <2>5. o = "iter_find" => from \in MotrKey /\ \E k \in MotrPrefix : k <= from
    BY <1>2, <1>3
  <2>6. Motr!IterInv(i)
    BY <1>3, <2>2, <2>3, <2>4, <2>5 DEF Motr!IterInv
  <2>7. iter' = [iter EXCEPT ![t] = Motr!Found(i, Motr!MinOf(Motr!Following(f, from, FALSE)), x)]
    BY <1>1, <1>6, <2>1 DEF Motr!First
  <2> QED
    BY <1>4, <1>6, <2>2, <2>6, <2>7, FoundStep
<1> QED
  BY <1>5, <1>6

\* m0kvs_key_iter_next() and the next turn of m0kvs_pattern(): where the iteration
\* ends nothing that has stayed is left: a key between two of the prefix would have
\* the prefix.
LEMMA NextStep ==
  ASSUME Motr!IterationsInv, NEW t \in Thread, NEW x \in BOOLEAN, Motr!IterNext(t, x)
  PROVE  Motr!IterationsInv'
<1>1. PICK i, ks, m : i = iter[t] /\ ks = Motr!Following(i.fid, i.at, i.flags = "exclude") /\ m = Motr!MinOf(ks)
  OBVIOUS
<1>2. /\ Motr!IterInv(i) /\ i.on \in {"iter_find", "pattern"} /\ UNCHANGED kvIndex
      /\ iter' = [iter EXCEPT ![t] =
           IF Motr!Over(i, ks) THEN [i EXCEPT !.on = "end"] ELSE Motr!Found(i, m, x)]
  BY <1>1 DEF Motr!IterNext, Motr!IterFrom, Motr!IterationsInv, Motr!store
<1>3. /\ i.seen \in Seq(MotrPrefix) /\ i.stay \subseteq MotrPrefix /\ i.at \in Nat
       /\ i.fid \in Fid
      /\ i = [on |-> i.on, fid |-> i.fid, at |-> i.at, flags |-> i.flags, refused |-> i.refused,
              seen |-> i.seen, stay |-> i.stay]
      /\ \A n \in 1..Len(i.seen) : Motr!Before(i, i.seen[n])
      /\ i.stay # {} => kvIndex[i.fid] # Null /\ i.stay \subseteq kvIndex[i.fid]
      /\ i.on = "iter_find" => \E k \in MotrPrefix : k <= i.at
      /\ \A k \in i.stay : Motr!Before(i, k) => Motr!Shows(i, k)
  BY <1>2 DEF Motr!IterInv
<1>4. /\ MotrKey \subseteq Nat /\ MotrPrefix \subseteq MotrKey
      /\ \A k, l \in MotrPrefix, n \in MotrKey : k < n /\ n < l => n \in MotrPrefix
  BY MotrAssumption
<1>5. ASSUME ks # {}
      PROVE  /\ m \in ks /\ m \in MotrKey /\ m \in Nat /\ i.at <= m
             /\ (i.flags = "exclude" => i.at < m) /\ \A k \in ks : m <= k
  <2>1. PICK f \in Fid : f = i.fid
    BY <1>3
  <2>2. ks = Motr!Following(f, i.at, i.flags = "exclude")
    BY <1>1, <2>1
  <2>3. /\ m = Motr!MinOf(Motr!Following(f, i.at, i.flags = "exclude"))
        /\ (i.flags = "exclude") \in BOOLEAN
    BY <1>1, <2>1
  <2> QED
    BY <1>3, <1>5, <2>2, <2>3, FollowingKeys
<1>6. CASE Motr!Over(i, ks)
  <2>1. ASSUME NEW k \in i.stay PROVE Motr!Shows(i, k)
    <3> SUFFICES ASSUME ~Motr!Before(i, k) PROVE FALSE
      BY <1>3
    <3>1. k \in MotrPrefix /\ k \in Nat /\ k \in kvIndex[i.fid] /\ kvIndex[i.fid] # Null
      BY <1>3, <1>4
    <3>2. IF i.flags = "exclude" THEN k > i.at ELSE k >= i.at
      BY <1>3, <3>1 DEF Motr!Before
    <3>3. k \in ks
      BY <1>1, <3>1, <3>2 DEF Motr!Following
    <3>4. CASE i.on = "iter_find" /\ i.at \notin MotrPrefix
      <4>1. PICK p \in MotrPrefix : p <= i.at
        BY <1>3, <3>4
      <4>2. kvIndex[i.fid] \subseteq MotrKey /\ i.at # k /\ p # i.at /\ p \in Nat
        BY <1>3, <1>4, <3>1, <3>4, <4>1 DEF Motr!IterationsInv
      <4>3. p < i.at /\ i.at < k
        BY <1>3, <3>1, <3>2, <4>1, <4>2
      <4>4. i.at \in MotrKey
        BY <1>2, <3>4 DEF Motr!IterInv
      <4> QED
        BY <1>4, <3>1, <3>4, <4>3, <4>4
    <3>5. CASE m \notin MotrPrefix /\ (i.on = "iter_find" \/ i.seen # <<>>)
      <4>1. PICK p \in MotrPrefix : p <= i.at
        <5>1. CASE i.on = "iter_find"
          BY <1>3, <5>1
        <5>2. CASE i.seen # <<>>
          <6>1. i.seen[1] \in MotrPrefix /\ Motr!Before(i, i.seen[1]) /\ i.seen[1] \in Nat
            BY <1>3, <1>4, <5>2
          <6>2. i.seen[1] <= i.at
            BY <1>3, <6>1 DEF Motr!Before
          <6> QED
            BY <6>1, <6>2
        <5> QED
          BY <3>5, <5>1, <5>2
      <4>2. m <= k /\ m # k /\ i.at <= m /\ m \in MotrKey /\ m \in Nat
        BY <1>5, <3>1, <3>3, <3>5
      <4>3. p # m /\ p \in Nat
        BY <1>4, <3>5, <4>1
      <4>4. m < k /\ p < m
        BY <1>3, <3>1, <4>1, <4>2, <4>3
      <4> QED
        BY <1>4, <3>1, <3>5, <4>2, <4>4
    <3> QED
      BY <1>1, <1>6, <3>3, <3>4, <3>5 DEF Motr!Over
  <2>2. PICK j : j = [i EXCEPT !.on = "end"]
    OBVIOUS
  <2>3. iter' = [iter EXCEPT ![t] = j]
    BY <1>2, <1>6, <2>2
  <2>4. /\ j.on = "end" /\ j.fid = i.fid /\ j.at = i.at /\ j.flags = i.flags
        /\ j.refused = i.refused /\ j.seen = i.seen /\ j.stay = i.stay
        /\ j = [on |-> j.on, fid |-> j.fid, at |-> j.at, flags |-> j.flags, refused |-> j.refused,
                seen |-> j.seen, stay |-> j.stay]
    BY <1>3, <2>2
  <2>5. \A k : (Motr!Shows(i, k) <=> Motr!Shows(j, k)) /\ (Motr!Before(i, k) <=> Motr!Before(j, k))
    BY <2>4 DEF Motr!Shows, Motr!Before
  <2>6. Motr!IterInv(j)
    BY <1>2, <1>3, <2>1, <2>4, <2>5 DEF Motr!IterInv
  <2> QED
    BY <1>2, <2>3, <2>6, IterStep
<1>7. CASE ~Motr!Over(i, ks)
  <2>1. ks # {}
    BY <1>7 DEF Motr!Over
  <2> QED
    BY <1>1, <1>2, <1>3, <1>7, <2>1, FoundStep
<1> QED
  BY <1>6, <1>7

\* The writes to the indices.
LEMMA IndexWrites ==
  ASSUME Motr!IterationsInv, NEW t \in Thread, NEW f \in Fid,
         Motr!Indices(t, f) \/ \E k \in MotrKey : Motr!Write(t, f, k)
  PROVE  Motr!IterationsInv'
<1>1. \A S \in SUBSET MotrKey : S # Null
  BY MotrAssumption
<1>2. kvIndex[f] # Null => kvIndex[f] \subseteq MotrKey
  BY DEF Motr!IterationsInv
<1>3. CASE Motr!Indices(t, f)
  <2>1. CASE kvIndex[f] = Null /\ kvIndex' = [kvIndex EXCEPT ![f] = {}] /\ UNCHANGED iter
    BY <2>1, IndexStep
  <2>2. CASE kvIndex' = [kvIndex EXCEPT ![f] = Null] /\ Motr!Deleted(f, MotrKey)
    BY <2>2, IndexStep
  <2> QED
    BY <1>3, <2>1, <2>2 DEF Motr!Indices
<1>4. ASSUME NEW k \in MotrKey, Motr!Write(t, f, k) PROVE Motr!IterationsInv'
  <2>1. kvIndex[f] # Null /\ kvIndex[f] \subseteq MotrKey
    BY <1>2, <1>4 DEF Motr!Write
  <2>2. CASE kvIndex' = [kvIndex EXCEPT ![f] = @ \cup {k}] /\ UNCHANGED iter
    <3>1. PICK S : S = kvIndex[f] \cup {k}
      OBVIOUS
    <3>2. S \in SUBSET MotrKey /\ S # Null /\ kvIndex' = [kvIndex EXCEPT ![f] = S]
      BY <1>1, <2>1, <2>2, <3>1
    <3> QED
      BY <2>2, <3>1, <3>2, IndexStep
  <2>3. CASE kvIndex' = [kvIndex EXCEPT ![f] = @ \ {k}] /\ Motr!Deleted(f, {k})
    <3>1. PICK S : S = kvIndex[f] \ {k}
      OBVIOUS
    <3>2. S \in SUBSET MotrKey /\ S # Null /\ kvIndex' = [kvIndex EXCEPT ![f] = S]
      BY <1>1, <2>1, <2>3, <3>1
    <3> QED
      BY <2>3, <3>1, <3>2, IndexStep
  <2> QED
    BY <1>4, <2>2, <2>3 DEF Motr!Write
<1> QED
  BY <1>3, <1>4

\* Every step of the wrappers keeps the invariant.
LEMMA MotrStep ==
  ASSUME Motr!MotrInv, Motr!Next
  PROVE  Motr!MotrInv'
<1>1. Motr!ServesInv /\ Motr!IterationsInv
  BY DEF Motr!MotrInv
<1>2. PICK t \in Thread :
        \/ Motr!M0Init(t) \/ Motr!OnceEnter(t) \/ Motr!OnceDone(t) \/ Motr!DoInit(t)
        \/ Motr!Adopt(t) \/ Motr!M0Fini(t) \/ Motr!ThreadExit(t) \/ Motr!Reinit(t)
        \/ \E o \in Motr!Checked : Motr!Read(t, o)
        \/ \E f \in Fid : Motr!Indices(t, f) \/ \E k \in MotrKey : Motr!Write(t, f, k)
        \/ \E f \in Fid, o \in {"iter_find", "pattern"}, x \in BOOLEAN : Motr!First(t, f, o, x)
        \/ \E o \in Obj : Motr!Objects(t, o)
        \/ \E x \in BOOLEAN : Motr!IterNext(t, x)
        \/ Motr!IterFini(t)
  BY DEF Motr!Next
<1>3. Motr!ServesInv'
  BY <1>1, <1>2, InitSteps, FiniSteps, WrapperCalls
<1>4. Motr!IterationsInv'
  <2>1. CASE \/ Motr!M0Init(t) \/ Motr!OnceEnter(t) \/ Motr!OnceDone(t) \/ Motr!DoInit(t)
             \/ Motr!Adopt(t) \/ Motr!M0Fini(t) \/ Motr!ThreadExit(t) \/ Motr!Reinit(t)
             \/ \E o \in Motr!Checked : Motr!Read(t, o)
             \/ \E o \in Obj : Motr!Objects(t, o)
    <3>1. UNCHANGED <<kvIndex, iter>>
      BY <2>1 DEF Motr!M0Init, Motr!OnceEnter, Motr!OnceDone, Motr!DoInit, Motr!Adopt,
         Motr!AdoptIf, Motr!M0Fini, Motr!ThreadExit, Motr!Reinit, Motr!Read, Motr!Objects,
         Motr!store
    <3> QED
      BY <1>1, <3>1, IterationsStay
  <2>2. CASE Motr!IterFini(t)
    <3>1. iter' = [iter EXCEPT ![t] = Motr!NoIter] /\ UNCHANGED kvIndex
      BY <2>2 DEF Motr!IterFini, Motr!store
    <3>2. PICK j : j = Motr!NoIter
      OBVIOUS
    <3> QED
      BY <1>1, <3>1, <3>2, NoIterInv, IterStep
  <2> QED
    BY <1>1, <1>2, <2>1, <2>2, IndexWrites, FirstStep, NextStep
<1> QED
  BY <1>3, <1>4 DEF Motr!MotrInv

(* m0common.c and m0kvs.c: Motr is initialised once and entered only by    *)
(* threads that it knows, but for the one that is taken for the init       *)
(* thread, and no iteration over an index under concurrent writes shows a  *)
(* key after it was taken or leaves out one that stayed, whatever its      *)
(* callback refuses.                                                       *)
THEOREM MotrCorrect == CSpec => []MotrServes
<1> DEFINE Inv == cPart = "motr" => Motr!MotrInv
<1>1. CInit => Inv
  <2> SUFFICES ASSUME CInit PROVE Motr!MotrInv
    OBVIOUS
  <2>1. Motr!Init
    BY DEF CInit
  <2>2. Motr!ServesInv
    <3>1. \A t \in Thread : mcall[t] = Motr!NoCall /\ mcall[t].step = "idle" /\ ~my[t]
      BY <2>1 DEF Motr!Init, Motr!NoCall
    <3>2. \A t \in Thread : Motr!ThreadInv(t)
      BY <3>1 DEF Motr!ThreadInv
    <3>3. mcall = [t \in Thread |-> [op |-> mcall[t].op, step |-> mcall[t].step]]
      BY <2>1 DEF Motr!Init, Motr!NoCall
    <3> QED
      BY <2>1, <3>2, <3>3 DEF Motr!Init, Motr!ServesInv, Motr!ClientInv, Motr!StraysInv
  <2>3. Motr!IterationsInv
    BY <2>1, NoIterInv DEF Motr!Init, Motr!IterationsInv
  <2> QED
    BY <2>2, <2>3 DEF Motr!MotrInv
<1>2. Inv /\ [CNext]_cVars => Inv'
  <2> SUFFICES ASSUME Inv, [CNext]_cVars, cPart' = "motr" PROVE Motr!MotrInv'
    OBVIOUS
  <2>1. CASE cPart = "motr" /\ Motr!Next
    BY <2>1, MotrStep
  <2>2. CASE cPart = "motr" /\ UNCHANGED motrVars
    <3>1. Motr!ServesInv'
      BY <2>2 DEF motrVars, Motr!MotrInv, Motr!ServesInv, Motr!ClientInv, Motr!ThreadInv,
         Motr!StraysInv
    <3>2. Motr!IterationsInv'
      BY <2>2, IterationsStay DEF motrVars, Motr!MotrInv
    <3> QED
      BY <3>1, <3>2 DEF Motr!MotrInv
  <2> QED
    BY <2>1, <2>2 DEF CNext, cVars
<1>3. Inv => MotrServes
  <2> SUFFICES ASSUME Motr!MotrInv PROVE Motr!InitialisedOnce /\ Motr!IterationComplete
    BY DEF MotrServes
  <2>1. Motr!InitialisedOnce
    BY DEF Motr!MotrInv, Motr!ServesInv, Motr!ClientInv, Motr!StraysInv, Motr!InitialisedOnce
  <2>2. ASSUME NEW t \in Thread, NEW i, i = iter[t]
        PROVE  /\ \A j \in 2..Len(i.seen) : i.seen[j - 1] < i.seen[j]
               /\ i.refused # Null => \A j \in 1..Len(i.seen) : i.seen[j] < i.refused
               /\ i.on = "end" => \A k \in i.stay : \E j \in 1..Len(i.seen) : i.seen[j] = k
    <3>1. /\ \A j, k \in 1..Len(i.seen) : j < k => i.seen[j] < i.seen[k]
          /\ i.on = "end" => \A k \in i.stay : Motr!Shows(i, k)
          /\ i.seen \in Seq(MotrPrefix) /\ i.at \in Nat 
          /\ \A j \in 1..Len(i.seen) : Motr!Before(i, i.seen[j])
          /\ i.refused # Null =>
               i.refused \in MotrKey /\ i.at <= i.refused /\ (i.flags = "exclude" => i.at < i.refused)
      BY <2>2 DEF Motr!MotrInv, Motr!IterationsInv, Motr!IterInv
    <3>2. PICK n \in Nat : n = Len(i.seen)
      BY <3>1
    <3>3. \A j \in 2..n : i.seen[j - 1] < i.seen[j]
      BY <3>1, <3>2
    <3>4. ASSUME i.refused # Null, NEW j \in 1..n PROVE i.seen[j] < i.refused
      <4>1. i.seen[j] \in MotrPrefix /\ i.refused \in MotrKey /\ Motr!Before(i, i.seen[j])
        BY <3>1, <3>2, <3>4
      <4>2. i.seen[j] \in Nat /\ i.refused \in Nat
        BY <4>1, MotrAssumption
      <4> QED
        BY <3>1, <3>4, <4>1, <4>2 DEF Motr!Before
    <3> QED
      BY <3>1, <3>2, <3>3, <3>4 DEF Motr!Shows
  <2> QED
    BY <2>1, <2>2 DEF Motr!IterationComplete
<1> QED
  BY <1>1, <1>2, <1>3, PTL DEF CSpec

-----------------------------------------------------------------------------
(* The management server.                                                  *)

\* Sequences of at most two elements.
LEMMA FirstReply ==
  ASSUME NEW c \in Nat
  PROVE  Append(<<>>, c) = <<c>> /\ Len(<<c>>) = 1 /\ <<c>>[1] = c
OBVIOUS

\* Appending to a sequence of numbers.
LEMMA NextPiece ==
  ASSUME NEW s \in Seq(Nat), NEW c \in Nat
  PROVE  /\ Append(s, c) \in Seq(Nat) /\ Len(Append(s, c)) = Len(s) + 1
         /\ Append(s, c)[Len(s) + 1] = c
         /\ \A i \in 1..Len(s) : Append(s, c)[i] = s[i]
OBVIOUS

\* Appending to a sequence of one.
LEMMA SecondPiece ==
  ASSUME NEW s \in Seq(Nat), NEW c \in Nat, Len(s) = 1
  PROVE  Len(Append(s, c)) = 2 /\ Append(s, c)[1] = s[1] /\ Append(s, c)[2] = c
<1> DEFINE a == Append(s, c)  k == Len(s)
<1>1. Len(a) = k + 1 /\ a[k + 1] = c /\ \A i \in 1..k : a[i] = s[i]
  BY NextPiece
<1>2. k = 1
  OBVIOUS
<1> HIDE DEF a, k
<1>3. k + 1 = 2 /\ 1 \in 1..k
  BY <1>2
<1> QED
  BY <1>1, <1>3 DEF a

\* A sequence of at most one that is not empty.
LEMMA SomePiece ==
  ASSUME NEW s \in Seq(Nat), s # <<>>, Len(s) < 2
  PROVE  Len(s) = 1
<1>1. Len(s) \in Nat /\ Len(s) # 0
  <2>1. \A x \in Seq(Nat) : x # <<>> => Len(x) \in Nat \ {0}
    BY EmptySeq
  <2> QED
    BY <2>1
<1> DEFINE k == Len(s)
<1>2. k \in Nat /\ k # 0 /\ k < 2
  BY <1>1
<1> HIDE DEF k
<1>3. k = 1
  BY <1>2
<1> QED
  BY <1>3 DEF k

\* What is left of a body after a piece of x bytes when n more may come.
LEMMA RestOfBody ==
  ASSUME NEW n \in Nat \ {0}, NEW x \in Nat, NEW m \in Nat, NEW l \in Nat,
         n <= l - x, x + m = l
  PROVE  m # 0 /\ n + x <= l
OBVIOUS

\* http_code is a number, and 200 only where there is no error.
LEMMA HttpCodes ==
  ASSUME NEW err
  PROVE  Management!HttpCode(err) \in Nat /\ (Management!HttpCode(err) = 200 => err = "0")
BY DEF Management!HttpCode

\* What request_send_response() changes of a request.
LEMMA RespondFields ==
  ASSUME NEW q \in Management!RequestType, NEW err
  PROVE  LET a == Management!Respond(q, err) IN
         /\ a \in Management!RequestType
         /\ a.replies = Append(q.replies, Management!HttpCode(err))
         /\ a.state = IF err # "0" THEN "ERROR" ELSE q.state
         /\ a.at = q.at /\ a.length = q.length /\ a.remaining = q.remaining /\ a.pieces = q.pieces
         /\ a.ran = q.ran /\ a.late = q.late /\ a.hooks = q.hooks /\ a.freed = q.freed
<1> DEFINE code == Management!HttpCode(err)  st == IF err # "0" THEN "ERROR" ELSE q.state
           reps == Append(q.replies, code)
<1>1. Management!Respond(q, err) = [q EXCEPT !.replies = reps, !.state = st]
  BY DEF Management!Respond, Management!RespondSetting
<1>2. reps \in Seq(Nat) /\ st \in {"ok", "ERROR"}
  BY HttpCodes DEF Management!RequestType
<1> HIDE DEF reps, st, code
<1>3. [q EXCEPT !.replies = reps, !.state = st] \in Management!RequestType
  BY <1>2 DEF Management!RequestType
<1>4. LET a == [q EXCEPT !.replies = reps, !.state = st] IN
      /\ a.replies = reps /\ a.state = st
      /\ a.at = q.at /\ a.length = q.length /\ a.remaining = q.remaining /\ a.pieces = q.pieces
      /\ a.ran = q.ran /\ a.late = q.late /\ a.hooks = q.hooks /\ a.freed = q.freed
  BY DEF Management!RequestType
<1> QED
  BY <1>1, <1>3, <1>4 DEF reps, st, code

\* http_dispatch_request(): what becomes of a request whose headers have come.
LEMMA DispatchFields ==
  ASSUME NEW r \in Request, NEW u, NEW method, NEW length \in Nat,
         Management!ManagementInv, Management!Dispatch(r, u, method, length)
  PROVE  \E q : req' = [req EXCEPT ![r] = q] /\ Management!RequestInv(q) /\ q # Management!NoRequest
                /\ q \in Management!RequestType
<1> DEFINE n == Management!NewRequest(u, method)
<1>1. n \in Management!RequestType
  BY DEF Management!ManagementInv, Management!NewRequest, Management!RequestType, Management!Supported
<1>2. /\ n.at = "open" /\ n.length = 0 /\ n.remaining = 0 /\ n.pieces = <<>> /\ n.state = "ok"
      /\ n.replies = <<>> /\ n.ran = FALSE /\ n.late = stopping /\ n.hooks = FALSE /\ n.freed = 0
  BY DEF Management!NewRequest
<1> HIDE DEF n
<1>3. req' = [req EXCEPT ![r] =
        CASE ~n.supported              -> [Management!Respond(n, "ENOTSUP") EXCEPT !.at = "paused"]
          [] n.supported /\ stopping   -> [Management!Respond(n, "ECONNABORTED") EXCEPT !.at = "paused"]
          [] n.supported /\ ~stopping  ->
               LET p == [Management!ValidateHeaders(n, length) EXCEPT !.hooks = TRUE, !.ran = TRUE]
               IN IF length = 0 THEN Management!Respond(p, "0") ELSE p]
  BY DEF Management!Dispatch, Management!DispatchIf, n
<1>4. ASSUME NEW err \in {"ENOTSUP", "ECONNABORTED"},
             req' = [req EXCEPT ![r] = [Management!Respond(n, err) EXCEPT !.at = "paused"]]
      PROVE  \E q : req' = [req EXCEPT ![r] = q] /\ Management!RequestInv(q) /\ q # Management!NoRequest
                    /\ q \in Management!RequestType
  <2> DEFINE a == Management!Respond(n, err)  q == [a EXCEPT !.at = "paused"]
  <2>1. /\ a \in Management!RequestType
        /\ a.replies = Append(n.replies, Management!HttpCode(err))
        /\ a.length = 0 /\ a.pieces = <<>> /\ a.ran = FALSE /\ a.hooks = FALSE /\ a.freed = 0
    BY <1>1, <1>2, RespondFields
  <2> HIDE DEF a
  <2>2. /\ q \in Management!RequestType /\ q.at = "paused" /\ q.replies = a.replies
        /\ q.length = 0 /\ q.pieces = <<>> /\ ~q.ran /\ ~q.hooks /\ q.freed = 0
    BY <2>1 DEF Management!RequestType
  <2>3. Len(q.replies) = 1 /\ q.replies[1] # 200
    <3>1. err # "0" /\ Management!HttpCode(err) \in Nat /\ Management!HttpCode(err) # 200
      BY <1>4, HttpCodes
    <3>2. q.replies = <<Management!HttpCode(err)>>
      BY <1>2, <2>1, <2>2, <3>1, FirstReply
    <3> QED
      BY <3>1, <3>2, FirstReply
  <2>4. q # Management!NoRequest
    BY <2>2 DEF Management!NoRequest
  <2>5. Management!RequestInv(q)
    BY <2>2, <2>3 DEF Management!RequestInv, Management!Refused
  <2> QED
    BY <1>4, <2>2, <2>4, <2>5 DEF a
<1>5. CASE n.supported /\ ~stopping
  <2> DEFINE v == Management!ValidateHeaders(n, length)
             p == [v EXCEPT !.hooks = TRUE, !.ran = TRUE]
             q == IF length = 0 THEN Management!Respond(p, "0") ELSE p
  <2>1. req' = [req EXCEPT ![r] = q]
    BY <1>3, <1>5
  <2>2. /\ v \in Management!RequestType /\ v.length = length /\ v.remaining = length
        /\ v.at = "open" /\ v.pieces = <<>> /\ v.state = "ok"
        /\ v.replies = <<>> /\ v.late = stopping /\ v.freed = 0
    BY <1>1, <1>2 DEF Management!ValidateHeaders, Management!RequestType
  <2> HIDE DEF v
  <2>3. /\ p \in Management!RequestType /\ p.length = length /\ p.remaining = length
        /\ p.at = "open" /\ p.pieces = <<>> /\ p.state = "ok"
        /\ p.replies = <<>> /\ p.late = stopping /\ p.freed = 0 /\ p.ran /\ p.hooks
    BY <2>2 DEF Management!RequestType
  <2> HIDE DEF p
  <2>4. CASE length = 0
    <3>1. /\ q \in Management!RequestType /\ q.length = length /\ q.remaining = length
          /\ q.at = "open" /\ q.pieces = <<>> /\ q.state = "ok"
          /\ q.replies = Append(<<>>, Management!HttpCode("0"))
          /\ q.late = stopping /\ q.freed = 0 /\ q.ran /\ q.hooks
      BY <2>3, <2>4, RespondFields
    <3>2. Len(q.replies) = 1
      <4>1. Management!HttpCode("0") \in Nat
        BY HttpCodes
      <4>2. q.replies = <<Management!HttpCode("0")>>
        BY <3>1, <4>1, FirstReply
      <4> QED
        BY <4>1, <4>2, FirstReply
    <3> HIDE DEF q
    <3>3. Management!RequestInv(q) /\ q # Management!NoRequest
      BY <1>5, <2>4, <3>1, <3>2 DEF Management!RequestInv, Management!Running, Management!Body, Management!NoRequest
    <3> QED
      BY <2>1, <3>1, <3>3
  <2>5. CASE length # 0
    <3>1. q = p /\ Len(p.replies) = 0
      BY <2>3, <2>5
    <3>2. Management!RequestInv(p) /\ p # Management!NoRequest
      BY <1>5, <2>3, <2>5, <3>1 DEF Management!RequestInv, Management!Running, Management!Body, Management!NoRequest
    <3> QED
      BY <2>1, <2>3, <3>1, <3>2
  <2> QED
    BY <2>4, <2>5
<1> QED
  BY <1>3, <1>4, <1>5

\* A piece of the body: the first is answered, the second one skipped.
LEMMA DataFields ==
  ASSUME NEW r \in Request, NEW n \in Nat \ {0}, Management!RequestInv(req[r]),
         Management!ProcessData(r, n), Len(req[r].pieces) < 2,
         n <= req[r].length - Management!Received(req[r])
  PROVE  \E q : req' = [req EXCEPT ![r] = q] /\ Management!RequestInv(q)
                /\ q \in Management!RequestType
<1> DEFINE o == req[r]  q == [o EXCEPT !.pieces = Append(@, n)]
<1>1. /\ o.at = "open" /\ o \in Management!RequestType /\ o.ran
      /\ Management!Running(o) /\ Management!Body(o)
  BY DEF Management!ProcessData, Management!RequestInv, Management!Refused, Management!NoRequest
<1>2. /\ q \in Management!RequestType /\ q.pieces = Append(o.pieces, n)
      /\ q.at = "open" /\ q.length = o.length /\ q.remaining = o.remaining /\ q.state = o.state
      /\ q.replies = o.replies /\ q.ran /\ q.late = o.late /\ q.hooks = o.hooks /\ q.freed = o.freed
  <2> DEFINE s == Append(o.pieces, n)
  <2>1. s \in Seq(Nat)
    BY <1>1, NextPiece DEF Management!RequestType
  <2> HIDE DEF s
  <2>2. q = [o EXCEPT !.pieces = s]
    BY DEF s
  <2>3. [o EXCEPT !.pieces = s] \in Management!RequestType
    BY <1>1, <2>1 DEF Management!RequestType
  <2>4. LET x == [o EXCEPT !.pieces = s] IN
        /\ x.pieces = s
        /\ x.at = o.at /\ x.length = o.length /\ x.remaining = o.remaining /\ x.state = o.state
        /\ x.replies = o.replies /\ x.ran = o.ran /\ x.late = o.late /\ x.hooks = o.hooks /\ x.freed = o.freed
    BY <1>1 DEF Management!RequestType
  <2> QED
    BY <1>1, <2>2, <2>3, <2>4 DEF s
<1>3. o.pieces \in Seq(Nat) /\ o.length \in Nat /\ o.remaining \in Nat /\ o.replies \in Seq(Nat)
  BY <1>1 DEF Management!RequestType
<1>4. \/ q.state = "ERROR" /\ req' = [req EXCEPT ![r] = q]
      \/ q.remaining = 0 /\ req' = [req EXCEPT ![r] = q]
      \/ /\ q.state # "ERROR" /\ q.remaining # 0
         /\ LET p == [q EXCEPT !.remaining = @ - n] IN
            \E err \in IF p.remaining # 0 THEN {"EINVAL"} ELSE Management!AcceptData :
              req' = [req EXCEPT ![r] = Management!Respond(p, err)]
  BY DEF Management!ProcessData
<1> HIDE DEF q
<1>5. CASE o.pieces = <<>>
  <2>1. /\ o.remaining = o.length /\ o.state = "ok" /\ Management!Received(o) = 0
        /\ n <= o.length /\ o.length > 0 /\ Len(o.replies) = 0
    BY <1>1, <1>3, <1>5 DEF Management!Body, Management!Received
  <2> DEFINE p == [q EXCEPT !.remaining = @ - n]
  <2>2. /\ p \in Management!RequestType /\ p.remaining = o.length - n /\ p.pieces = q.pieces
        /\ p.at = "open" /\ p.length = o.length /\ p.state = "ok"
        /\ p.replies = o.replies /\ p.ran /\ p.late = o.late /\ p.hooks = o.hooks /\ p.freed = o.freed
    <3>1. o.length - n \in Nat
      BY <1>3, <2>1
    <3> QED
      BY <1>2, <2>1, <3>1 DEF Management!RequestType
  <2>3. PICK err \in IF p.remaining # 0 THEN {"EINVAL"} ELSE Management!AcceptData :
          req' = [req EXCEPT ![r] = Management!Respond(p, err)]
    BY <1>2, <1>4, <2>1
  <2> HIDE DEF p
  <2> DEFINE a == Management!Respond(p, err)
  <2>4. /\ a \in Management!RequestType
        /\ a.replies = Append(p.replies, Management!HttpCode(err))
        /\ a.state = IF err # "0" THEN "ERROR" ELSE p.state
        /\ a.at = p.at /\ a.length = p.length /\ a.remaining = p.remaining /\ a.pieces = p.pieces
        /\ a.ran = p.ran /\ a.late = p.late /\ a.hooks = p.hooks /\ a.freed = p.freed
    BY <2>2, RespondFields
  <2> HIDE DEF a
  <2>5. Len(a.pieces) = 1 /\ a.pieces[1] = n
    BY <1>2, <1>5, <2>2, <2>4
  <2>6. Len(a.replies) = 1 /\ a.replies[1] = Management!HttpCode(err)
    BY <1>3, <2>1, <2>2, <2>4, HttpCodes
  <2>7. a.remaining # 0 => a.state = "ERROR" /\ a.replies[1] # 200
    BY <2>3, <2>4, <2>6, HttpCodes
  <2>8. Management!Body(a)
    BY <1>3, <2>1, <2>2, <2>4, <2>5, <2>6, <2>7 DEF Management!Body
  <2>9. Management!Running(a)
    BY <1>1, <2>2, <2>4 DEF Management!Running
  <2> QED
    BY <2>2, <2>3, <2>4, <2>8, <2>9 DEF Management!RequestInv, a
<1>6. CASE o.pieces # <<>>
  <2>1. Len(o.pieces) = 1
    BY <1>3, <1>6, SomePiece
  <2>2. /\ o.length > 0 /\ o.pieces[1] + o.remaining = o.length /\ Len(o.replies) = 1
        /\ o.remaining # 0 => o.state = "ERROR" /\ o.replies[1] # 200
    BY <1>1, <2>1, <1>6 DEF Management!Body
  <2>3. Management!Received(o) = o.pieces[1] /\ o.pieces[1] \in Nat
    BY <1>3, <1>6, <2>1 DEF Management!Received
  <2>4. o.remaining # 0 /\ n + o.pieces[1] <= o.length
    <3>1. n <= o.length - o.pieces[1]
      BY <2>3
    <3> QED
      BY <1>3, <2>2, <2>3, <3>1, RestOfBody
  <2>5. req' = [req EXCEPT ![r] = q]
    BY <1>2, <1>4, <2>2, <2>4
  <2>6. Len(q.pieces) = 2 /\ q.pieces[1] = o.pieces[1] /\ q.pieces[2] = n
    BY <1>2, <1>3, <2>1, SecondPiece
  <2>7. Management!Body(q) /\ Management!Running(q)
    BY <1>1, <1>2, <2>2, <2>3, <2>4, <2>6 DEF Management!Body, Management!Running
  <2> QED
    BY <1>2, <2>5, <2>7 DEF Management!RequestInv
<1> QED
  BY <1>5, <1>6

\* One request changes and the others keep what holds of them.
LEMMA RequestUpdated ==
  ASSUME NEW r \in Request, NEW q \in Management!RequestType, Management!ManagementInv,
         req' = [req EXCEPT ![r] = q], Management!RequestInv(q), stopping' = stopping
  PROVE  Management!ManagementInv'
<1>1. req \in [Request -> Management!RequestType \cup {Management!NoRequest}]
  BY DEF Management!ManagementInv
<1>2. req' \in [Request -> Management!RequestType \cup {Management!NoRequest}]
  BY <1>1
<1>3. ASSUME NEW x \in Request PROVE Management!RequestInv(req'[x])
  <2>1. CASE x = r
    BY <1>1, <2>1
  <2>2. CASE x # r
    BY <1>1, <2>2 DEF Management!ManagementInv
  <2> QED
    BY <2>1, <2>2
<1> QED
  BY <1>2, <1>3 DEF Management!ManagementInv

\* http_on_client_conn_err_callback() leaves what came and what was answered.
LEMMA ConnErrorKeeps ==
  ASSUME NEW r \in Request, Management!ManagementInv, Management!ConnError(r)
  PROVE  Management!ManagementInv'
<1> DEFINE o == req[r]  q == [o EXCEPT !.at = "gone", !.hooks = FALSE]
<1>1. Management!RequestInv(o) /\ o.at = "open" /\ stopping' = stopping
      /\ req \in [Request -> Management!RequestType \cup {Management!NoRequest}]
  BY DEF Management!ManagementInv, Management!ConnError
<1>2. o \in Management!RequestType /\ o.ran /\ Management!Running(o) /\ Management!Body(o)
  BY <1>1 DEF Management!RequestInv, Management!Refused, Management!NoRequest
<1>3. req' = [req EXCEPT ![r] = q]
  BY <1>1 DEF Management!ConnError
<1>4. q \in Management!RequestType
  BY <1>2 DEF Management!RequestType
<1>5. /\ q.at = "gone" /\ q.hooks = FALSE
      /\ q.length = o.length /\ q.remaining = o.remaining /\ q.pieces = o.pieces /\ q.state = o.state
      /\ q.replies = o.replies /\ q.ran = o.ran /\ q.late = o.late /\ q.freed = o.freed
  BY <1>2 DEF Management!RequestType
<1> HIDE DEF q
<1>6. Management!Running(q) /\ Management!Body(q)
  BY <1>1, <1>2, <1>5 DEF Management!Running, Management!Body
<1>7. Management!RequestInv(q)
  BY <1>2, <1>4, <1>5, <1>6 DEF Management!RequestInv
<1> QED
  BY <1>1, <1>3, <1>4, <1>7, RequestUpdated

\* http_on_client_request_fini() frees a request whose hooks are set, once.
LEMMA RequestFiniKeeps ==
  ASSUME NEW r \in Request, Management!ManagementInv, Management!RequestFini(r)
  PROVE  Management!ManagementInv'
<1> DEFINE o == req[r]  f == IF o.hooks THEN o.freed + 1 ELSE o.freed
           q == [o EXCEPT !.at = "ended", !.hooks = FALSE, !.freed = f]
<1>1. Management!RequestInv(o) /\ o.at \in {"open", "paused"} /\ stopping' = stopping
      /\ req \in [Request -> Management!RequestType \cup {Management!NoRequest}]
  BY DEF Management!ManagementInv, Management!RequestFini
<1>2. o \in Management!RequestType
  BY <1>1 DEF Management!RequestInv, Management!NoRequest
<1>3. req' = [req EXCEPT ![r] = q]
  BY <1>1 DEF Management!RequestFini
<1>4. f \in Nat
  BY <1>2 DEF Management!RequestType
<1>5. f = IF o.hooks THEN o.freed + 1 ELSE o.freed
  OBVIOUS
<1> HIDE DEF f
<1>6. q \in Management!RequestType
  BY <1>2, <1>4 DEF Management!RequestType
<1>7. /\ q.at = "ended" /\ q.hooks = FALSE /\ q.freed = f
      /\ q.length = o.length /\ q.remaining = o.remaining /\ q.pieces = o.pieces /\ q.state = o.state
      /\ q.replies = o.replies /\ q.ran = o.ran /\ q.late = o.late
  BY <1>2 DEF Management!RequestType
<1> HIDE DEF q
<1>8. ASSUME ~o.ran, Management!Refused(o) PROVE Management!RequestInv(q)
  BY <1>5, <1>6, <1>7, <1>8 DEF Management!RequestInv, Management!Refused
<1>9. ASSUME o.ran, Management!Running(o), Management!Body(o) PROVE Management!RequestInv(q)
  <2>1. o.at = "open" /\ o.hooks /\ o.freed = 0
    BY <1>1, <1>9 DEF Management!Running
  <2>2. f = 1
    BY <1>5, <2>1
  <2>3. Management!Running(q) /\ Management!Body(q)
    BY <1>7, <1>9, <2>2 DEF Management!Running, Management!Body
  <2> QED
    BY <1>6, <1>7, <1>9, <2>3 DEF Management!RequestInv
<1>10. Management!RequestInv(q)
  BY <1>1, <1>8, <1>9 DEF Management!RequestInv, Management!NoRequest
<1> QED
  BY <1>1, <1>3, <1>6, <1>10, RequestUpdated

\* Every step of the server and of its clients preserves the invariant.
LEMMA ManagementStep ==
  ASSUME Management!ManagementInv, [Management!Next]_(Management!vars)
  PROVE  Management!ManagementInv'
<1>1. ASSUME req' = req, stopping' \in BOOLEAN PROVE Management!ManagementInv'
  BY <1>1 DEF Management!ManagementInv
<1>2. stopping \in BOOLEAN
  BY DEF Management!ManagementInv
<1>3. CASE \E reuse, ipv6 \in BOOLEAN : Management!ServerInit(reuse, ipv6)
  BY <1>1, <1>2, <1>3 DEF Management!ServerInit
<1>4. CASE Management!ServerStart \/ Management!ServerStop \/ Management!LoopExit
  BY <1>1, <1>2, <1>4 DEF Management!ServerStart, Management!ServerStop, Management!LoopExit
<1>5. CASE \E r \in Request, u \in Management!Uris, method \in Methods, length \in 0..MaxLength :
             Management!Dispatch(r, u, method, length)
  <2>1. PICK r \in Request, u \in Management!Uris, method \in Methods, length \in 0..MaxLength :
             Management!Dispatch(r, u, method, length)
    BY <1>5
  <2>2. PICK q : /\ req' = [req EXCEPT ![r] = q] /\ Management!RequestInv(q)
                 /\ q \in Management!RequestType
    BY <2>1, DispatchFields
  <2>3. stopping' = stopping
    BY <2>1 DEF Management!Dispatch, Management!DispatchIf
  <2> QED
    BY <2>2, <2>3, RequestUpdated
<1>6. CASE \E r \in Request : /\ Len(req[r].pieces) < 2
                              /\ \E n \in 1..MaxLength : /\ n <= req[r].length - Management!Received(req[r])
                                                         /\ Management!ProcessData(r, n)
  <2>1. PICK r \in Request, n \in 1..MaxLength :
             /\ Len(req[r].pieces) < 2 /\ n <= req[r].length - Management!Received(req[r])
             /\ Management!ProcessData(r, n)
    BY <1>6
  <2>2. Management!RequestInv(req[r]) /\ n \in Nat \ {0}
    BY <2>1 DEF Management!ManagementInv
  <2>3. PICK q : /\ req' = [req EXCEPT ![r] = q] /\ Management!RequestInv(q)
                 /\ q \in Management!RequestType
    BY <2>1, <2>2, DataFields
  <2>4. stopping' = stopping
    BY <2>1 DEF Management!ProcessData
  <2> QED
    BY <2>3, <2>4, RequestUpdated
<1>7. CASE \E r \in Request : Management!ConnError(r) \/ Management!RequestFini(r)
  BY <1>7, ConnErrorKeeps, RequestFiniKeeps
<1>8. CASE UNCHANGED Management!vars
  BY <1>1, <1>2, <1>8 DEF Management!vars
<1> QED
  BY <1>3, <1>4, <1>5, <1>6, <1>7, <1>8 DEF Management!Next

\* Any number of connections, controllers and bytes, clients that leave and a
\* server that stops: one reply per request, a success only for a body in one
\* piece, and each request that ran freed once (http_dispatch_request(),
\* http_process_request_data(), http_on_client_request_fini()).
THEOREM ManagementCorrect == CSpec => []AnsweredOnce
<1> DEFINE Inv == cPart = "management" => Management!ManagementInv
<1>1. CInit => Inv
  BY DEF CInit, Management!Init, Management!ManagementInv, Management!RequestInv
<1>2. Inv /\ [CNext]_cVars => Inv'
  <2>1. [CNext]_cVars /\ cPart' = "management"
          => cPart = "management" /\ [Management!Next]_(Management!vars)
    BY DEF CNext, cVars, managementVars, Management!vars
  <2> QED
    BY <2>1, ManagementStep
<1>3. ASSUME Management!ManagementInv PROVE Management!AnsweredOnce
  <2>1. SUFFICES ASSUME NEW r \in Request, req[r].at # "none"
                 PROVE  LET q == req[r] IN
                        /\ Len(q.replies) <= 1
                        /\ Management!Received(q) = q.length => Len(q.replies) = 1
                        /\ q.replies = <<200>> =>
                             q.ran /\ Len(q.pieces) = (IF q.length = 0 THEN 0 ELSE 1)
                        /\ q.late => ~q.ran
                        /\ q.at = "ended" => q.freed = (IF q.ran THEN 1 ELSE 0)
    BY DEF Management!AnsweredOnce
  <2> DEFINE q == req[r]
  <2>2. \/ q \in Management!RequestType /\ ~q.ran /\ Management!Refused(q)
        \/ q \in Management!RequestType /\ q.ran /\ Management!Running(q) /\ Management!Body(q)
    BY <1>3, <2>1 DEF Management!ManagementInv, Management!RequestInv, Management!NoRequest
  <2>3. q.pieces \in Seq(Nat) /\ q.length \in Nat /\ q.replies \in Seq(Nat)
    BY <2>2 DEF Management!RequestType
  <2>4. <<200>>[1] = 200 /\ Len(<<200>>) = 1
    OBVIOUS
  <2> HIDE DEF q
  <2>5. CASE ~q.ran /\ Management!Refused(q)
    BY <2>4, <2>5 DEF Management!Refused, q
  <2>6. CASE q.ran /\ Management!Running(q) /\ Management!Body(q)
    <3>1. /\ ~q.late
          /\ q.at = "ended" => q.freed = 1
      BY <2>6 DEF Management!Running
    <3>2. CASE q.pieces = <<>> /\ Len(q.replies) = (IF q.length = 0 THEN 1 ELSE 0)
      <4>1. Len(q.pieces) = 0 /\ Management!Received(q) = 0
        BY <3>2 DEF Management!Received
      <4>2. CASE q.length = 0
        BY <2>3, <2>4, <2>6, <3>1, <3>2, <4>1, <4>2 DEF q
      <4>3. CASE q.length # 0
        <5>1. Len(q.replies) = 0 /\ q.replies # <<200>> /\ Management!Received(q) # q.length
          BY <2>4, <3>2, <4>1, <4>3
        <5> QED
          BY <2>3, <2>6, <3>1, <5>1 DEF q
      <4> QED
        BY <4>2, <4>3
    <3>3. CASE Len(q.pieces) = 1 /\ q.length > 0 /\ Len(q.replies) = 1
      BY <2>3, <2>4, <2>6, <3>1, <3>3 DEF q
    <3>4. CASE Len(q.replies) = 1 /\ q.replies[1] # 200
      BY <2>3, <2>4, <2>6, <3>1, <3>4 DEF q
    <3> QED
      BY <2>6, <3>2, <3>3, <3>4 DEF Management!Body
  <2> QED
    BY <2>2, <2>5, <2>6
<1>4. Inv => AnsweredOnce
  BY <1>3 DEF AnsweredOnce
<1> QED
  BY <1>1, <1>2, <1>4, PTL DEF CSpec

=============================================================================

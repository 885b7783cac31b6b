--------------------------- MODULE DiscoveryProofs ---------------------------
(***************************************************************************)
(* What a success of a discovery request means, for any number of requests *)
(* and parts, however their sets of the register overlap.                  *)
(***************************************************************************)
EXTENDS Discovery, TLAPS

\* The steps of a set keep the types of the register and of the set.
LEMMA IoTypes ==
  ASSUME TypeOK, IoSound, NEW t \in Threads,
         NEW step \in Steps \cup Request,
         IoLoad(t, step) \/ IoOpen(t) \/ IoWrite(t, step)
  PROVE  TypeOK' /\ IoSound'
<1> USE DEF TypeOK, IoSound, Steps, Goto, mapVars
<1>1. NoIo \in IoState
  BY DEF NoIo, IoState, Statuses
<1>2. CASE IoLoad(t, step)
  <2>1. CASE register = Empty
    <3>1. io' = [io EXCEPT ![t] = NoIo] /\ at' = [at EXCEPT ![t] = step]
      BY <1>2, <2>1 DEF IoLoad
    <3>2. UNCHANGED <<register, mapVars, reported>>
      BY <1>2 DEF IoLoad
    <3> QED
      BY <1>1, <3>1, <3>2 DEF NoIo, IoState
  <2>2. CASE register # Empty
    <3>1. io' = [io EXCEPT ![t].step = "open", ![t].payload = register]
      BY <1>2, <2>2 DEF IoLoad
    <3>2. UNCHANGED <<register, mapVars, at, reported>>
      BY <1>2, <2>2 DEF IoLoad
    <3>3. register \in [Request -> Statuses] /\ io[t].req \in Request
      BY <1>2, <2>2 DEF IoLoad
    <3>4. io[t] \in IoState
      OBVIOUS
    <3>5. [io[t] EXCEPT !.step = "open", !.payload = register] \in IoState
      BY <3>3, <3>4 DEF IoState
    <3>6. io' = [io EXCEPT ![t] = [io[t] EXCEPT !.step = "open", !.payload = register]]
      BY <3>1
    <3>7. io'[t] = [io[t] EXCEPT !.step = "open", !.payload = register] /\ io' \in [Threads -> IoState]
      BY <3>5, <3>6
    <3>8. io'[t].req = io[t].req /\ io'[t].payload = register
      BY <3>4, <3>7 DEF IoState
    <3>9. IoSound'
      BY <3>3, <3>6, <3>8
    <3> QED
      BY <3>2, <3>7, <3>9
  <2> QED
    BY <2>1, <2>2
<1>3. CASE IoOpen(t)
  <2>1. io[t] \in IoState /\ io[t].step = "open"
    BY <1>3 DEF IoOpen
  <2>2. io' = [io EXCEPT ![t] = [io[t] EXCEPT !.step = "write"]]
    BY <1>3 DEF IoOpen
  <2>3. [io[t] EXCEPT !.step = "write"] \in IoState
    BY <2>1 DEF IoState
  <2>4. io' \in [Threads -> IoState] /\ io'[t] = [io[t] EXCEPT !.step = "write"]
    BY <2>2, <2>3
  <2>5. io'[t].req = io[t].req /\ io'[t].payload = io[t].payload
    BY <2>1, <2>4 DEF IoState
  <2>6. IoSound'
    BY <2>1, <2>2, <2>5
  <2> QED
    BY <1>3, <2>4, <2>6 DEF IoOpen
<1>4. CASE IoWrite(t, step)
  <2>1. io[t].payload \in [Request -> Statuses] /\ io[t].req \in Request /\ io[t].status \in Statuses
    BY <1>4 DEF IoWrite, IoState
  <2>2. register' \in [Request -> Statuses]
    BY <1>4, <2>1 DEF IoWrite
  <2>3. io' = [io EXCEPT ![t] = NoIo] /\ at' = [at EXCEPT ![t] = step] /\ UNCHANGED <<mapVars, reported>>
    BY <1>4 DEF IoWrite
  <2> QED
    BY <1>1, <2>2, <2>3 DEF NoIo, IoState
<1> QED
  BY <1>2, <1>3, <1>4

\* A set that is entered is well typed.
LEMMA SetEntryTypes ==
  ASSUME TypeOK, IoSound, NEW t \in Threads, NEW r \in Request, NEW status \in Statuses,
         SetEntry(t, r, status)
  PROVE  /\ io' \in [Threads -> IoState]
         /\ io'[t] = [step |-> "load", req |-> r, status |-> status, payload |-> None]
         /\ \A u \in Threads \ {t} : io'[u] = io[u]
         /\ IoSound'
<1>1. /\ io' \in [Threads -> IoState]
      /\ io'[t] = [step |-> "load", req |-> r, status |-> status, payload |-> None]
      /\ \A u \in Threads \ {t} : io'[u] = io[u]
  BY DEF SetEntry, TypeOK, IoState
<1>2. io'[t].step = "load" /\ io'[t].req = r
  BY <1>1
<1> QED
  BY <1>1, <1>2 DEF IoSound

\* What a step of a set on a map leaves and gives.
LEMMA SetTypes ==
  ASSUME TypeOK, IoSound, NEW r \in Request, MapLoad(r) \/ MapOpen(r) \/ MapWrite(r), MapsBegun
  PROVE  TypeOK' /\ IoSound'
<1> DEFINE e == set[r]
<1>0. /\ set \in [Request -> SetState] /\ e \in SetState /\ r \in Threads
      /\ UNCHANGED <<register, io, reported>> /\ IoSound'
  BY DEF TypeOK, IoSound, Threads, MapLoad, MapOpen, MapWrite
<1>1. NoSet \in SetState
  BY DEF NoSet, SetState
<1>2. ASSUME MapLoad(r) PROVE TypeOK'
  <2>1. CASE maps[e.url] = Empty
    <3>1. set' = [set EXCEPT ![r] = NoSet] /\ at' = [at EXCEPT ![r] = "failing"] /\ UNCHANGED <<maps, todo>>
      BY <1>2, <2>1 DEF MapLoad, Goto
    <3> QED
      BY <1>0, <1>1, <3>1 DEF TypeOK, Steps
  <2>2. CASE maps[e.url] # Empty
    <3>1. /\ set' = [set EXCEPT ![r] = [e EXCEPT !.step = "open", !.payload = maps[e.url]]]
          /\ UNCHANGED <<maps, todo, at>>
      BY <1>2, <2>2 DEF MapLoad
    <3>2. e.url \in Maps
      BY <1>2 DEF MapLoad, MapsBegun, Begun, Maps
    <3>3. maps[e.url] \subseteq Request \X AnyPart
      BY <2>2, <3>2 DEF TypeOK
    <3>4. [e EXCEPT !.step = "open", !.payload = maps[e.url]] \in SetState
      BY <1>0, <3>3 DEF SetState
    <3> QED
      BY <1>0, <3>1, <3>4 DEF TypeOK
  <2> QED
    BY <2>1, <2>2
<1>3. ASSUME MapOpen(r) PROVE TypeOK'
  <2>1. /\ set' = [set EXCEPT ![r] = [e EXCEPT !.step = "write"]]
        /\ maps' = [maps EXCEPT ![e.url] = Empty] /\ UNCHANGED <<todo, at>>
    BY <1>3 DEF MapOpen
  <2>2. [e EXCEPT !.step = "write"] \in SetState
    BY <1>0 DEF SetState
  <2> QED
    BY <1>0, <2>1, <2>2 DEF TypeOK
<1>4. ASSUME MapWrite(r) PROVE TypeOK'
  <2>1. /\ set' = [set EXCEPT ![r] = NoSet]
        /\ maps' = [maps EXCEPT ![e.url] = e.payload \cup {<<r, e.part>>}]
        /\ todo' = [todo EXCEPT ![r] = @ \ {e.part}] /\ UNCHANGED at
    BY <1>4 DEF MapWrite
  <2>2. e.part \in AnyPart /\ e.payload \subseteq Request \X AnyPart
    BY <1>0, <1>4 DEF MapWrite, MapsBegun, SetState
  <2> QED
    BY <1>0, <1>1, <2>1, <2>2 DEF TypeOK
<1> QED
  BY <1>0, <1>2, <1>3, <1>4

\* Every step keeps the types.
LEMMA TypeStep == TypeOK /\ IoSound /\ MapsBegun /\ [Next]_vars => TypeOK' /\ IoSound'
<1> SUFFICES ASSUME TypeOK, IoSound, MapsBegun, [Next]_vars PROVE TypeOK' /\ IoSound'
  OBVIOUS
<1> USE DEF mapVars
<1>1. ASSUME NEW r \in Request, ThreadStep(r) PROVE TypeOK' /\ IoSound'
  <2>0. r \in Threads
    BY DEF Threads
  <2>1. CASE Start(r)
    BY <2>0, <2>1 DEF Start, Goto, TypeOK, IoSound, Steps
  <2>2. CASE Add(r)
    <3>1. io' \in [Threads -> IoState] /\ IoSound'
      BY <2>0, <2>2, SetEntryTypes DEF Add, Statuses
    <3> QED
      BY <2>2, <3>1 DEF Add, TypeOK, IoState
  <2>3. CASE UpdateMap(r)
    <3>1. CASE Goto(r, "failing") /\ UNCHANGED set
      BY <2>0, <2>3, <3>1 DEF UpdateMap, Goto, TypeOK, IoSound, Steps
    <3>2. ASSUME NEW k \in todo[r], UNCHANGED at,
                 set' = [set EXCEPT ![r] = [step |-> "load", url |-> kv, part |-> k, payload |-> {}]]
          PROVE  TypeOK' /\ IoSound'
      <4>1. k \in AnyPart /\ kv \in Maps
        BY <2>0, <2>3 DEF TypeOK, UpdateMap, Running, MapsBegun, Begun, Maps
      <4>2. [step |-> "load", url |-> kv, part |-> k, payload |-> {}] \in SetState
        BY <4>1 DEF SetState
      <4> QED
        BY <2>3, <3>2, <4>2 DEF UpdateMap, TypeOK, IoSound
    <3> QED
      BY <2>3, <3>1, <3>2 DEF UpdateMap
  <2>4. CASE Processed(r)
    <3>1. CASE UNCHANGED io
      BY <2>0, <2>4, <3>1 DEF Processed, Goto, SetEntry, TypeOK, IoSound, Steps
    <3>2. ASSUME NEW status \in {"Success", "Failed"}, SetEntry(r, r, status) PROVE TypeOK' /\ IoSound'
      <4>1. io' \in [Threads -> IoState] /\ IoSound'
        BY <2>0, <3>2, SetEntryTypes DEF Statuses
      <4>2. at' \in [Threads -> Steps \cup Request]
        BY <2>0, <2>4 DEF Processed, Goto, TypeOK, Steps
      <4> QED
        BY <2>4, <4>1, <4>2 DEF Processed, TypeOK, IoState, Steps
    <3> QED
      BY <2>4, <3>1, <3>2 DEF Processed
  <2>5. CASE ThreadIo(r)
    BY <2>0, <2>5, IoTypes DEF ThreadIo, Steps
  <2>6. CASE MapLoad(r) \/ MapOpen(r) \/ MapWrite(r)
    BY <2>6, SetTypes
  <2> QED
    BY <1>1, <2>1, <2>2, <2>3, <2>4, <2>5, <2>6 DEF ThreadStep
<1>2. ASSUME NEW r \in Asked, Ask(r) PROVE TypeOK' /\ IoSound'
  <2>0. r \in Request /\ Caller \in Threads
    BY ConstantsAssumption DEF Threads
  <2>1. CASE UNCHANGED <<io, at>>
    BY <1>2, <2>0, <2>1 DEF Ask, AskOr, TypeOK, IoSound
  <2>2. CASE SetEntry(Caller, r, "Failed") /\ Goto(Caller, r) /\ UNCHANGED reported
    <3>1. io' \in [Threads -> IoState] /\ IoSound'
      BY <2>0, <2>2, SetEntryTypes DEF Statuses
    <3> QED
      BY <1>2, <2>0, <2>2, <3>1 DEF Ask, AskOr, Goto, TypeOK
  <2> QED
    BY <1>2, <2>1, <2>2 DEF Ask, AskOr
<1>3. ASSUME NEW r \in Asked, Answer(r) PROVE TypeOK' /\ IoSound'
  BY <1>3, ConstantsAssumption DEF Answer, Goto, TypeOK, IoSound, Threads, Steps
<1>4. ASSUME NEW r \in Asked, Expire(r) PROVE TypeOK' /\ IoSound'
  BY <1>4 DEF Expire, TypeOK, IoSound
<1>5. CASE CallerIo
  <2>1. Caller \in Threads /\ at[Caller] \in Steps \cup Request
    BY DEF Threads, TypeOK
  <2> QED
    BY <1>5, <2>1, IoTypes DEF CallerIo, Steps
<1>6. CASE Crash
  <2>1. NoIo \in IoState /\ NoIo.step = "no"
    BY DEF NoIo, IoState, Statuses
  <2>2. io' \in [Threads -> IoState] /\ at' \in [Threads -> Steps \cup Request]
    BY <1>6, <2>1 DEF Crash, TypeOK, Steps
  <2>3. set' \in [Request -> SetState]
    BY <1>6 DEF Crash, NoSet, SetState
  <2> QED
    BY <1>6, <2>1, <2>2, <2>3 DEF Crash, TypeOK, IoSound
<1>7. CASE UNCHANGED vars
  BY <1>7 DEF vars, TypeOK, IoSound
<1> QED
  BY <1>1, <1>2, <1>3, <1>4, <1>5, <1>6, <1>7 DEF Next
-----------------------------------------------------------------------------
\* The steps that concern the maps.
LEMMA MapFrame ==
  ASSUME [Next]_vars
  PROVE  \/ UNCHANGED mapVars
         \/ \E r \in Request : UpdateMap(r) \/ MapLoad(r) \/ MapOpen(r) \/ MapWrite(r)
         \/ Crash
BY DEF Next, ThreadStep, Start, Add, Processed, ThreadIo, IoLoad, IoOpen, IoWrite,
       Ask, AskOr, Answer, Expire, CallerIo, vars

\* What a step does to the set of a request on a map.
LEMMA SetCases ==
  ASSUME TypeOK, [Next]_vars, NEW r \in Request
  PROVE  \/ set'[r] = set[r]
         \/ set'[r].step = "no"
         \/ /\ set'[r].step = "load" /\ set'[r].url = kv /\ set'[r].part \in todo[r]
            /\ UpdateMap(r) /\ at[r] = "map"
         \/ /\ set'[r].url = set[r].url /\ set'[r].part = set[r].part
            /\ \/ /\ MapLoad(r) /\ set[r].step = "load" /\ set'[r].step = "open"
                  /\ set'[r].payload = maps[set[r].url] /\ maps[set[r].url] # Empty
               \/ /\ MapOpen(r) /\ set[r].step = "open" /\ set'[r].step = "write"
                  /\ set'[r].payload = set[r].payload
<1>0. set \in [Request -> SetState] /\ set[r] \in SetState /\ NoSet.step = "no"
  BY DEF TypeOK, NoSet
<1>1. ASSUME NEW q \in Request, UpdateMap(q) PROVE UpdateMap(r) \/ set'[r] = set[r]
  BY <1>0, <1>1 DEF UpdateMap
<1>2. ASSUME NEW q \in Request, q # r, MapLoad(q) \/ MapOpen(q) \/ MapWrite(q) PROVE set'[r] = set[r]
  BY <1>0, <1>2 DEF MapLoad, MapOpen, MapWrite
<1>3. CASE UpdateMap(r)
  <2>1. CASE UNCHANGED set
    BY <2>1
  <2>2. ASSUME NEW k \in todo[r],
               set' = [set EXCEPT ![r] = [step |-> "load", url |-> kv, part |-> k, payload |-> {}]]
        PROVE  set'[r].step = "load" /\ set'[r].url = kv /\ set'[r].part \in todo[r]
    <3>1. set'[r] = [step |-> "load", url |-> kv, part |-> k, payload |-> {}]
      BY <1>0, <2>2
    <3> QED
      BY <3>1
  <2> QED
    BY <1>3, <2>1, <2>2 DEF UpdateMap, Running
<1>4. CASE MapLoad(r)
  <2>1. CASE maps[set[r].url] = Empty
    BY <1>0, <1>4, <2>1 DEF MapLoad
  <2>2. CASE maps[set[r].url] # Empty
    <3>1. set'[r] = [set[r] EXCEPT !.step = "open", !.payload = maps[set[r].url]]
      BY <1>0, <1>4, <2>2 DEF MapLoad
    <3> QED
      BY <1>0, <1>4, <2>2, <3>1 DEF MapLoad, SetState
  <2> QED
    BY <2>1, <2>2
<1>5. CASE MapOpen(r)
  <2>1. set'[r] = [set[r] EXCEPT !.step = "write"]
    BY <1>0, <1>5 DEF MapOpen
  <2> QED
    BY <1>0, <1>5, <2>1 DEF MapOpen, SetState
<1>6. MapWrite(r) \/ Crash => set'[r].step = "no"
  BY <1>0 DEF MapWrite, Crash
<1> QED
  BY <1>1, <1>2, <1>3, <1>4, <1>5, <1>6, MapFrame DEF mapVars

\* What is written once, and a map that is raced for, stay so.
LEMMA Grows ==
  ASSUME [Next]_vars
  PROVE  written \subseteq written' /\ raced \subseteq raced'
BY MapFrame DEF mapVars, UpdateMap, MapLoad, MapOpen, MapWrite, Crash

\* A thread that has begun does not become new.
LEMMA BegunStays ==
  ASSUME TypeOK, [Next]_vars
  PROVE  /\ Begun \subseteq Begun' /\ Begun \subseteq Maps
         /\ \A r \in Request : \A k : WrittenOnce(r, k) => WrittenOnce(r, k)'
<1> USE ConstantsAssumption DEF Goto
<1>1. \A q \in Request : at[q] # "new" => at'[q] # "new"
  <2>1. ASSUME NEW r \in Request, ThreadStep(r), NEW q \in Request, at[q] # "new" PROVE at'[q] # "new"
    <3>1. at \in [Threads -> Steps \cup Request] /\ q \in Threads /\ r \in Threads
      BY DEF TypeOK, Threads
    <3>2. CASE Start(r)
      BY <2>1, <3>1, <3>2 DEF Start
    <3>3. CASE Add(r)
      BY <2>1, <3>3 DEF Add
    <3>4. CASE UpdateMap(r) \/ MapLoad(r) \/ MapOpen(r) \/ MapWrite(r)
      BY <2>1, <3>1, <3>4 DEF UpdateMap, MapLoad, MapOpen, MapWrite
    <3>5. CASE Processed(r)
      BY <2>1, <3>1, <3>5 DEF Processed
    <3>6. CASE ThreadIo(r)
      BY <2>1, <3>1, <3>6 DEF ThreadIo, IoLoad, IoOpen, IoWrite
    <3> QED
      BY <2>1, <3>2, <3>3, <3>4, <3>5, <3>6 DEF ThreadStep
  <2>2. ASSUME NEW q \in Request, at[q] # "new", NEW r \in Asked, Ask(r) \/ Answer(r) \/ Expire(r)
        PROVE  at'[q] # "new"
    BY <2>2 DEF TypeOK, Threads, Ask, AskOr, Answer, Expire
  <2>3. ASSUME NEW q \in Request, at[q] # "new", CallerIo PROVE at'[q] # "new"
    BY <2>3 DEF TypeOK, Threads, CallerIo, IoLoad, IoOpen, IoWrite
  <2>4. ASSUME NEW q \in Request, at[q] # "new", Crash PROVE at'[q] # "new"
    BY <2>4 DEF Crash, Threads
  <2>5. CASE UNCHANGED vars
    BY <2>5 DEF vars
  <2> QED
    BY <2>1, <2>2, <2>3, <2>4, <2>5 DEF Next
<1>2. Begun \subseteq Begun' /\ Begun \subseteq Maps
  BY <1>1 DEF Begun, Maps
<1> QED
  BY <1>2, Grows DEF WrittenOnce

\* A set uses a map in use.
LEMMA MapsStep ==
  ASSUME TypeOK, MapsBegun, [Next]_vars
  PROVE  MapsBegun'
<1> USE ConstantsAssumption DEF Goto
<1>0. Begun \subseteq Begun'
  BY BegunStays
<1>1. ASSUME NEW r \in Request, at'[r] \in {"add", "map"} PROVE kv' \in Begun'
  <2>0. at \in [Threads -> Steps \cup Request] /\ r \in Threads
    BY DEF TypeOK, Threads
  <2>1. ASSUME NEW q \in Request, Start(q) PROVE kv' \in Begun'
    <3>1. kv' = Url[q] /\ at'[q] # "new"
      BY <2>1 DEF Start, TypeOK, Threads
    <3> QED
      BY <3>1 DEF Begun
  <2>2. ASSUME NEW q \in Request, ThreadStep(q), ~Start(q)
        PROVE  kv' = kv /\ at[r] \in {"add", "map"}
    <3>1. kv' = kv
      BY <2>2 DEF ThreadStep, Add, UpdateMap, MapLoad, MapOpen, MapWrite, Processed, ThreadIo,
                  IoLoad, IoOpen, IoWrite
    <3>2. CASE MapLoad(q) \/ MapOpen(q) \/ MapWrite(q)
      BY <1>1, <2>0, <3>1, <3>2 DEF MapLoad, MapOpen, MapWrite, Threads
    <3>3. CASE q # r /\ ~(MapLoad(q) \/ MapOpen(q) \/ MapWrite(q))
      BY <1>1, <2>0, <2>2, <3>1, <3>3
         DEF ThreadStep, Add, UpdateMap, Processed, ThreadIo, IoLoad, IoOpen, IoWrite, Threads
    <3>4. CASE q = r /\ ~(MapLoad(q) \/ MapOpen(q) \/ MapWrite(q))
      BY <1>1, <2>0, <2>2, <3>1, <3>4
         DEF ThreadStep, Add, UpdateMap, Processed, ThreadIo, IoLoad, IoOpen, IoWrite, Running
    <3> QED
      BY <3>2, <3>3, <3>4
  <2>3. ASSUME NEW q \in Asked, Ask(q) \/ Answer(q) \/ Expire(q) PROVE kv' = kv /\ at'[r] = at[r]
    BY <2>0, <2>3 DEF Ask, AskOr, Answer, Expire, Threads
  <2>4. CallerIo \/ UNCHANGED vars => kv' = kv /\ at'[r] = at[r]
    BY <2>0 DEF CallerIo, IoLoad, IoOpen, IoWrite, vars, Threads
  <2>5. ~Crash
    BY <1>1, <2>0 DEF Crash
  <2>6. (kv' = kv /\ at[r] \in {"add", "map"}) => kv' \in Begun'
    BY <1>0 DEF MapsBegun
  <2> QED
    BY <1>1, <2>1, <2>2, <2>3, <2>4, <2>5, <2>6 DEF Next
<1>2. ASSUME NEW r \in Request, set'[r].step # "no"
      PROVE  set'[r].url \in Begun' /\ set'[r].part \in AnyPart
  <2>1. CASE set'[r] = set[r]
    BY <1>0, <1>2, <2>1 DEF MapsBegun
  <2>2. CASE set'[r].url = kv /\ set'[r].part \in todo[r] /\ at[r] = "map"
    BY <1>0, <2>2 DEF MapsBegun, TypeOK
  <2>3. CASE /\ set'[r].url = set[r].url /\ set'[r].part = set[r].part
             /\ set[r].step \in {"load", "open"}
    BY <1>0, <2>3 DEF MapsBegun
  <2> QED
    BY <1>2, <2>1, <2>2, <2>3, SetCases
<1> QED
  BY <1>1, <1>2 DEF MapsBegun

\* Unless two sets of a map overlap, the one under way writes all back.
LEMMA SetsStep ==
  ASSUME TypeOK, SetsSound, WrittenStays, MapsBegun, [Next]_vars
  PROVE  SetsSound'
<1> DEFINE Alone(r, u) == \A q \in Request \ {r} :
                            ~(set'[q].step \in {"open", "write"} /\ set'[q].url = u)
           Whole(r, u) == \A q \in Request, k \in AnyPart :
                            <<q, k, u>> \in written' => <<q, k>> \in set'[r].payload
<1> SUFFICES ASSUME NEW r \in Request, NEW u, u = set'[r].url,
                    set'[r].step \in {"open", "write"}, u \notin raced'
             PROVE  Alone(r, u) /\ Whole(r, u)
  BY DEF SetsSound, Setting
<1>0. u \notin raced
  BY Grows
<1>1. ASSUME set[r].step \in {"open", "write"}, set[r].url = u, set[r].payload = set'[r].payload
      PROVE  Alone(r, u) /\ Whole(r, u)
  <2>1. /\ ~Setting(r, u)
        /\ \A q \in Request, k \in AnyPart : <<q, k, u>> \in written => <<q, k>> \in set'[r].payload
    BY <1>0, <1>1 DEF SetsSound
  <2>2. ASSUME NEW q \in Request \ {r}, set'[q].step \in {"open", "write"}, set'[q].url = u PROVE FALSE
    <3>1. ~(set[q].step \in {"open", "write"} /\ set[q].url = u)
      BY <2>1 DEF Setting
    <3>2. MapLoad(q) /\ set[q].url = u /\ set'[q].step = "open" /\ maps[u] # Empty
      BY <2>2, <3>1, SetCases
    <3>3. Setting(q, u)
      BY <1>1 DEF Setting
    <3> QED
      BY <3>2, <3>3 DEF MapLoad
  <2>3. CASE written' = written
    BY <1>1, <2>1, <2>2, <2>3
  <2>4. ASSUME NEW q \in Request, MapWrite(q) PROVE set[q].url # u
    <3>1. set[q].step = "write" /\ set'[q].step = "no"
      BY <2>4 DEF MapWrite, TypeOK, NoSet
    <3> QED
      BY <2>1, <3>1 DEF Setting
  <2>5. CASE \E q \in Request : MapWrite(q)
    <3>1. PICK q \in Request : MapWrite(q)
      BY <2>5
    <3>2. written' = written \cup {<<q, set[q].part, set[q].url>>}
      BY <3>1 DEF MapWrite
    <3>3. \A p \in Request, k \in AnyPart : <<p, k, u>> \in written' => <<p, k, u>> \in written
      BY <2>4, <3>1, <3>2
    <3> QED
      BY <1>1, <2>1, <2>2, <3>3
  <2> QED
    BY <2>3, <2>5, MapFrame DEF mapVars, UpdateMap, MapLoad, MapOpen, Crash
<1>2. CASE /\ MapLoad(r) /\ set[r].step = "load" /\ set[r].url = u /\ maps[u] # Empty
           /\ set'[r].payload = maps[u]
  <2>1. ~Setting(r, u) /\ written' = written /\ \A q \in Request \ {r} : set'[q] = set[q]
    BY <1>2 DEF MapLoad, TypeOK
  <2>2. u \in Maps
    BY <1>2, BegunStays DEF MapsBegun
  <2> QED
    BY <1>0, <1>2, <2>1, <2>2 DEF Setting, WrittenStays
<1> QED
  BY <1>1, <1>2, SetCases

\* What was written to a map stays there while the sets do not overlap.
LEMMA WrittenStep ==
  ASSUME TypeOK, SetsSound, WrittenStays, MapsBegun, [Next]_vars
  PROVE  WrittenStays'
<1> SUFFICES ASSUME NEW u \in Maps, u \notin raced', maps'[u] # Empty,
                    NEW q \in Request, NEW k \in AnyPart, <<q, k, u>> \in written'
             PROVE  <<q, k>> \in maps'[u]
  BY DEF WrittenStays, Empty
<1>0. u \notin raced
  BY Grows
<1>1. CASE maps'[u] = maps[u] /\ written' = written
  BY <1>0, <1>1 DEF WrittenStays
<1>2. ASSUME NEW r \in Request, MapOpen(r) PROVE maps'[u] = maps[u] /\ written' = written
  BY <1>2 DEF MapOpen, TypeOK
<1>3. ASSUME NEW r \in Request, MapWrite(r) PROVE <<q, k>> \in maps'[u]
  <2>1. /\ set[r].step = "write"
        /\ maps' = [maps EXCEPT ![set[r].url] = set[r].payload \cup {<<r, set[r].part>>}]
        /\ written' = written \cup {<<r, set[r].part, set[r].url>>}
    BY <1>3 DEF MapWrite
  <2>2. CASE set[r].url = u
    BY <1>0, <2>1, <2>2 DEF SetsSound, TypeOK
  <2>3. CASE set[r].url # u
    BY <1>0, <2>1, <2>3 DEF WrittenStays, TypeOK
  <2> QED
    BY <2>2, <2>3
<1> QED
  BY <1>1, <1>2, <1>3, MapFrame DEF mapVars, UpdateMap, MapLoad, Crash

\* A part that is not to be set any more was written to a map in use.
LEMMA DoneStep ==
  ASSUME TypeOK, MapsBegun, SuccessEarned, [Next]_vars,
         NEW r \in Request, NEW k \in Parts[r], k \notin todo'[r]
  PROVE  WrittenOnce(r, k)'
<1>1. CASE k \notin todo[r]
  BY <1>1, BegunStays DEF SuccessEarned
<1>2. CASE k \in todo[r]
  <2>1. PICK q \in Request : MapWrite(q)
    BY <1>2, MapFrame DEF mapVars, UpdateMap, MapLoad, MapOpen, Crash
  <2>2. /\ set[q].step = "write" /\ todo' = [todo EXCEPT ![q] = @ \ {set[q].part}]
        /\ <<q, set[q].part, set[q].url>> \in written'
    BY <2>1 DEF MapWrite
  <2>3. q = r /\ set[q].part = k
    BY <1>2, <2>2 DEF TypeOK
  <2>4. set[q].url \in Begun'
    BY <2>2, BegunStays DEF MapsBegun
  <2> QED
    BY <2>2, <2>3, <2>4 DEF WrittenOnce
<1> QED
  BY <1>1, <1>2

-----------------------------------------------------------------------------
\* The steps of a set hand a success on and make none.
LEMMA IoClaims ==
  ASSUME TypeOK, IoSound, NEW t \in Threads, NEW step, NEW r \in Request,
         IoLoad(t, step) \/ IoOpen(t) \/ IoWrite(t, step), Claimed(r)'
  PROVE  Claimed(r)
<1>0. io \in [Threads -> IoState] /\ io[t] \in IoState /\ reported' = reported
  BY DEF TypeOK, IoLoad, IoOpen, IoWrite
<1>n. NoIo.step = "no"
  BY DEF NoIo
<1>1. CASE IoLoad(t, step) /\ register = Empty
  <2>1. io' = [io EXCEPT ![t] = NoIo] /\ register' = register
    BY <1>1 DEF IoLoad
  <2> QED
    BY <1>0, <1>n, <2>1 DEF Claimed
<1>2. CASE IoLoad(t, step) /\ register # Empty
  <2>1. io' = [io EXCEPT ![t] = [io[t] EXCEPT !.step = "open", !.payload = register]]
        /\ register' = register /\ io[t].step = "load"
    BY <1>2 DEF IoLoad
  <2>2. io'[t] = [io[t] EXCEPT !.step = "open", !.payload = register]
    BY <1>0, <2>1
  <2>3. io'[t].req = io[t].req /\ io'[t].status = io[t].status /\ io'[t].payload = register
    BY <1>0, <2>2 DEF IoState
  <2>4. \A u \in Threads : u # t => io'[u] = io[u]
    BY <1>0, <2>1
  <2> QED
    BY <1>0, <1>2, <2>1, <2>3, <2>4 DEF Claimed
<1>3. CASE IoOpen(t)
  <2>1. io' = [io EXCEPT ![t] = [io[t] EXCEPT !.step = "write"]]
        /\ register' = Empty /\ io[t].step = "open"
    BY <1>3 DEF IoOpen
  <2>2. io'[t] = [io[t] EXCEPT !.step = "write"]
    BY <1>0, <2>1
  <2>3. io'[t].req = io[t].req /\ io'[t].status = io[t].status /\ io'[t].payload = io[t].payload
    BY <1>0, <2>2 DEF IoState
  <2>4. \A u \in Threads : u # t => io'[u] = io[u]
    BY <1>0, <2>1
  <2> QED
    BY <1>0, <2>1, <2>3, <2>4 DEF Claimed, Empty
<1>4. CASE IoWrite(t, step)
  <2>1. /\ io' = [io EXCEPT ![t] = NoIo] /\ io[t].step = "write"
        /\ register' = [io[t].payload EXCEPT ![io[t].req] = io[t].status]
    BY <1>4 DEF IoWrite
  <2>2. io[t].payload \in [Request -> Statuses] /\ io[t].req \in Request
    BY <2>1 DEF IoSound
  <2>3. register'[r] = IF r = io[t].req THEN io[t].status ELSE io[t].payload[r]
    BY <2>1, <2>2
  <2>4. io'[t].step = "no" /\ \A u \in Threads : u # t => io'[u] = io[u]
    BY <1>0, <1>n, <2>1
  <2> QED
    BY <1>0, <2>1, <2>3, <2>4 DEF Claimed
<1> QED
  BY <1>1, <1>2, <1>3, <1>4

\* A set that is entered adds what it is to set, and nothing else.
LEMMA SetEntryClaims ==
  ASSUME TypeOK, IoSound, NEW t \in Threads, NEW q \in Request, NEW status \in Statuses,
         SetEntry(t, q, status), UNCHANGED <<register, reported>>,
         NEW r \in Request, Claimed(r)'
  PROVE  Claimed(r) \/ (r = q /\ status = "Success")
<1>1. io'[t] = [step |-> "load", req |-> q, status |-> status, payload |-> None]
      /\ \A u \in Threads \ {t} : io'[u] = io[u]
  BY SetEntryTypes
<1>2. io'[t].step = "load" /\ io'[t].req = q /\ io'[t].status = status
  BY <1>1
<1> QED
  BY <1>1, <1>2 DEF Claimed

\* Only a thread with all its parts in the maps starts to claim a success.
LEMMA ClaimStep ==
  ASSUME TypeOK, IoSound, [Next]_vars, NEW r \in Request, Claimed(r)'
  PROVE  Claimed(r) \/ todo[r] = {}
<1> USE ConstantsAssumption
<1>1. ASSUME NEW q \in Request, ThreadStep(q) PROVE Claimed(r) \/ todo[r] = {}
  <2>0. q \in Threads
    BY DEF Threads
  <2>1. CASE Start(q) \/ UpdateMap(q) \/ MapLoad(q) \/ MapOpen(q) \/ MapWrite(q)
    BY <2>1 DEF Start, UpdateMap, MapLoad, MapOpen, MapWrite, Claimed
  <2>2. CASE Add(q)
    <3>1. SetEntry(q, q, "In-progress") /\ UNCHANGED <<register, reported>>
      BY <2>2 DEF Add
    <3> QED
      BY <2>0, <3>1, SetEntryClaims DEF Statuses
  <2>3. CASE Processed(q)
    <3>1. UNCHANGED <<register, reported>>
      BY <2>3 DEF Processed
    <3>2. CASE UNCHANGED io
      BY <3>1, <3>2 DEF Claimed
    <3>3. CASE SetEntry(q, q, "Success") /\ at[q] = "map"
      <4>1. todo[q] = {}
        BY <2>3, <3>3 DEF Processed, Running
      <4> QED
        BY <2>0, <3>1, <3>3, <4>1, SetEntryClaims DEF Statuses
    <3>4. CASE SetEntry(q, q, "Failed")
      BY <2>0, <3>1, <3>4, SetEntryClaims DEF Statuses
    <3> QED
      BY <2>3, <3>2, <3>3, <3>4 DEF Processed
  <2>4. CASE ThreadIo(q)
    BY <2>0, <2>4, IoClaims DEF ThreadIo
  <2> QED
    BY <1>1, <2>1, <2>2, <2>3, <2>4 DEF ThreadStep
<1>2. ASSUME NEW q \in Asked, Ask(q) PROVE Claimed(r)
  <2>0. q \in Request /\ Caller \in Threads
    BY DEF Threads
  <2>1. CASE SetEntry(Caller, q, "Failed") /\ UNCHANGED reported
    BY <1>2, <2>0, <2>1, SetEntryClaims DEF Ask, AskOr, Statuses
  <2>2. CASE reported' = [reported EXCEPT ![q] = register[q]] /\ UNCHANGED io
    BY <1>2, <2>0, <2>2 DEF Ask, AskOr, Claimed, TypeOK
  <2> QED
    BY <1>2, <2>1, <2>2 DEF Ask, AskOr
<1>3. ASSUME NEW q \in Asked, Answer(q) PROVE Claimed(r)
  BY <1>3 DEF Answer, Claimed, TypeOK
<1>4. ASSUME NEW q \in Asked, Expire(q) PROVE Claimed(r)
  BY <1>4 DEF Expire, Claimed
<1>5. CASE CallerIo
  <2>1. Caller \in Threads
    BY DEF Threads
  <2> QED
    BY <1>5, <2>1, IoClaims DEF CallerIo
<1>6. CASE Crash
  <2>1. NoIo.step = "no"
    BY DEF NoIo
  <2> QED
    BY <1>6, <2>1 DEF Crash, Claimed
<1>7. CASE UNCHANGED vars
  BY <1>7 DEF vars, Claimed
<1> QED
  BY <1>1, <1>2, <1>3, <1>4, <1>5, <1>6, <1>7 DEF Next

LEMMA DiscoveryStep == DiscoveryInv /\ [Next]_vars => DiscoveryInv'
<1> SUFFICES ASSUME DiscoveryInv, [Next]_vars PROVE DiscoveryInv'
  OBVIOUS
<1>1. TypeOK /\ IoSound /\ MapsBegun /\ SetsSound /\ WrittenStays /\ SuccessEarned
  BY DEF DiscoveryInv
<1>2. ASSUME NEW r \in Request, Claimed(r)', NEW k \in Parts[r] PROVE WrittenOnce(r, k)'
  <2>1. Claimed(r) \/ k \notin todo[r]
    BY <1>1, <1>2, ClaimStep
  <2> QED
    BY <1>1, <2>1, BegunStays DEF SuccessEarned
<1>3. SuccessEarned'
  BY <1>1, <1>2, DoneStep DEF SuccessEarned
<1> QED
  BY <1>1, <1>3, TypeStep, MapsStep, SetsStep, WrittenStep DEF DiscoveryInv

LEMMA DiscoveryInit == Init => DiscoveryInv
<1> SUFFICES ASSUME Init PROVE DiscoveryInv
  OBVIOUS
<1>1. NoIo \in IoState /\ NoIo.step = "no"
  BY DEF NoIo, IoState, Statuses
<1>2. TypeOK
  <2>1. NoSet \in SetState /\ Parts \in [Request -> SUBSET AnyPart]
    BY ConstantsAssumption DEF NoSet, SetState, AnyPart
  <2> QED
    BY <1>1, <2>1 DEF Init, TypeOK, Maps, Statuses, Steps
<1>3. IoSound
  BY <1>1 DEF Init, IoSound
<1>4. MapsBegun /\ SetsSound /\ WrittenStays
  <2>1. \A r \in Request : at[r] = "new" /\ set[r].step = "no"
    BY ConstantsAssumption DEF Init, Threads, NoSet
  <2> QED
    BY <2>1 DEF Init, MapsBegun, SetsSound, WrittenStays
<1>5. SuccessEarned
  BY <1>1, ConstantsAssumption DEF Init, SuccessEarned, Claimed
<1> QED
  BY <1>2, <1>3, <1>4, <1>5 DEF DiscoveryInv

\* The register, the maps and the state of the threads keep their types.
THEOREM TypeCorrect == Spec => []TypeOK
<1>1. DiscoveryInv => TypeOK
  BY DEF DiscoveryInv
<1> QED
  BY <1>1, DiscoveryInit, DiscoveryStep, PTL DEF Spec

\* Whatever sets overlap, write over one another or are cut off by a crash, a
\* request is reported a success only if every part of it was written to its own
\* map or to the map of another request that has begun, and a map that can be
\* read lacks the part later only if sets of that map overlapped.
THEOREM SuccessCorrect == Spec => []SuccessHasParts
<1>1. DiscoveryInv => SuccessHasParts
  <2> SUFFICES ASSUME DiscoveryInv, NEW r \in Request, reported[r] = "Success", NEW k \in Parts[r]
               PROVE  \E q \in Request :
                        /\ q = r \/ at[q] # "new"
                        /\ <<r, k, Url[q]>> \in written
                        /\ Url[q] \in raced \/ maps[Url[q]] = Empty \/ <<r, k>> \in maps[Url[q]]
    BY DEF SuccessHasParts
  <2>1. PICK u \in Begun : <<r, k, u>> \in written
    BY DEF DiscoveryInv, SuccessEarned, Claimed, WrittenOnce
  <2>2. PICK q \in Request : at[q] # "new" /\ u = Url[q]
    BY DEF Begun
  <2>3. u \in Maps /\ k \in AnyPart
    BY <2>2 DEF Maps, AnyPart
  <2> QED
    BY <2>1, <2>2, <2>3 DEF DiscoveryInv, WrittenStays
<1> QED
  BY <1>1, DiscoveryInit, DiscoveryStep, PTL DEF Spec
=============================================================================

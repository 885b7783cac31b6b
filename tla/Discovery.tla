----------------------------- MODULE Discovery -----------------------------
(***************************************************************************)
(* Resource discovery: a thread per request (RequestHandler.process())     *)
(* registers the request, writes the resources it finds into the map of    *)
(* the request and sets its status; a caller asks for the status and marks *)
(* requests that are too old as failed.  The register and the maps are     *)
(* JSON files, written by KvStore.set(): load, open (empties), write, with *)
(* no lock: a set writes back what it loaded, whatever others wrote since. *)
(***************************************************************************)
EXTENDS Naturals, FiniteSets

CONSTANTS
  Request,
  Url,        \* Url[r]: the map of the request
  Parts,      \* Parts[r]: the children of the leaf of its resource path
  Asked,      \* the requests whose status somebody asks for
  Caller,     \* the thread that asks for the status
  None

ASSUME ConstantsAssumption ==
  /\ Asked \subseteq Request /\ Caller \notin Request /\ None # "Success"
  /\ Parts = [r \in Request |-> Parts[r]]

VARIABLES
  register,   \* requests.json: register[r] is a status or None; or Empty
  maps,       \* maps[u]: the <<request, part>> pairs in the map; or Empty
  kv,         \* Resource._kv: the map in use
  old,        \* requests whose time in the register is past expiry_sec
  at,         \* at[t]: the step a thread is at; for the caller, the request whose
              \*   status it is about to read again
  io,         \* io[t]: the step of KvStore.set() on the register, and its data
  todo,       \* todo[r]: the parts that r has not set yet
  set,        \* set[r]: the step of KvStore.set() on a map, and its data
  written,    \* the <<request, part, map>> that were written once
  raced,      \* the maps that a set loaded while another was under way
  reported,   \* reported[r]: the status the caller was given last
  crashes

mapVars == <<maps, todo, set, written, raced>>
vars == <<register, mapVars, kv, old, at, io, reported, crashes>>

Threads == Request \cup {Caller}
Empty == None
NoIo == [step |-> "no", req |-> None, status |-> None, payload |-> None]
AnyPart == UNION {Parts[r] : r \in Request}
Final == {"Success", "Failed"}
Maps == {Url[r] : r \in Request}
NoSet == [step |-> "no", url |-> None, part |-> None, payload |-> {}]

Init ==
  /\ register = [r \in Request |-> None]
  /\ maps = [u \in Maps |-> {}]
  /\ todo = Parts /\ set = [r \in Request |-> NoSet]
  /\ written = {} /\ raced = {}
  /\ kv = None /\ old = {}
  /\ at = [t \in Threads |-> IF t = Caller THEN "idle" ELSE "new"]
  /\ io = [t \in Threads |-> NoIo]
  /\ reported = [r \in Request |-> None]
  /\ crashes = 0

Goto(t, step) == at' = [at EXCEPT ![t] = step]

-----------------------------------------------------------------------------
(* KvStore.set() on the register.  fails is where an exception leads.      *)

SetEntry(t, r, status) ==
  io' = [io EXCEPT ![t] = [step |-> "load", req |-> r, status |-> status, payload |-> None]]

IoLoad(t, fails) ==
  /\ io[t].step = "load"
  /\ IF register = Empty
     THEN io' = [io EXCEPT ![t] = NoIo] /\ Goto(t, fails)
     ELSE io' = [io EXCEPT ![t].step = "open", ![t].payload = register] /\ UNCHANGED at
  /\ UNCHANGED <<register, mapVars, kv, old, reported, crashes>>

IoOpen(t) ==
  /\ io[t].step = "open"
  /\ register' = Empty
  /\ io' = [io EXCEPT ![t].step = "write"]
  /\ UNCHANGED <<mapVars, kv, old, at, reported, crashes>>

IoWrite(t, then) ==
  /\ io[t].step = "write"
  /\ register' = [io[t].payload EXCEPT ![io[t].req] = io[t].status]
  /\ old' = old \ {io[t].req}
  /\ io' = [io EXCEPT ![t] = NoIo] /\ Goto(t, then)
  /\ UNCHANGED <<mapVars, kv, reported, crashes>>

-----------------------------------------------------------------------------
(* RequestHandler.process(), in the thread of the request.                 *)

Running(r, step) == at[r] = step /\ io[r] = NoIo /\ set[r] = NoSet

\* Resource.init(), for all threads of the process; the load() may raise, and
\* does so if the map is empty.
Start(r) ==
  /\ Running(r, "new")
  /\ kv' = Url[r]
  /\ (maps[Url[r]] # Empty /\ Goto(r, "add")) \/ Goto(r, "failing")
  /\ UNCHANGED <<register, mapVars, old, io, reported, crashes>>

\* _add_discovery_request().
Add(r) ==
  /\ Running(r, "add")
  /\ SetEntry(r, r, "In-progress")
  /\ UNCHANGED <<register, mapVars, kv, old, at, reported, crashes>>

\* _update_resource_map(): for each child, get_data(), which may raise, and
\* Resource.set() to the map in use at that moment.
UpdateMap(r) ==
  /\ Running(r, "map") /\ todo[r] # {}
  /\ \/ /\ \E k \in todo[r] :
            set' = [set EXCEPT ![r] = [step |-> "load", url |-> kv, part |-> k, payload |-> {}]]
        /\ UNCHANGED at
     \/ Goto(r, "failing") /\ UNCHANGED set
  /\ UNCHANGED <<register, maps, todo, written, raced, kv, old, io, reported, crashes>>

\* Somebody else has loaded the map and not written it back yet.
Setting(r, u) == \E q \in Request \ {r} : set[q].step \in {"open", "write"} /\ set[q].url = u

\* KvStore.set() on the map: the load of an empty file raises.
MapLoad(r) ==
  /\ set[r].step = "load"
  /\ LET u == set[r].url IN
     IF maps[u] = Empty
     THEN set' = [set EXCEPT ![r] = NoSet] /\ Goto(r, "failing") /\ UNCHANGED raced
     ELSE /\ set' = [set EXCEPT ![r].step = "open", ![r].payload = maps[u]]
          /\ raced' = IF Setting(r, u) THEN raced \cup {u} ELSE raced
          /\ UNCHANGED at
  /\ UNCHANGED <<register, maps, todo, written, kv, old, io, reported, crashes>>

MapOpen(r) ==
  /\ set[r].step = "open"
  /\ maps' = [maps EXCEPT ![set[r].url] = Empty]
  /\ set' = [set EXCEPT ![r].step = "write"]
  /\ UNCHANGED <<register, todo, written, raced, kv, old, at, io, reported, crashes>>

MapWrite(r) ==
  /\ set[r].step = "write"
  /\ LET u == set[r].url  k == set[r].part IN
     /\ maps' = [maps EXCEPT ![u] = set[r].payload \cup {<<r, k>>}]
     /\ written' = written \cup {<<r, k, u>>}
     /\ todo' = [todo EXCEPT ![r] = @ \ {k}]
  /\ set' = [set EXCEPT ![r] = NoSet]
  /\ UNCHANGED <<register, raced, kv, old, at, io, reported, crashes>>

\* process() that sets the status while parts are missing.
ProcessedEarly(r) ==
  /\ Running(r, "map") /\ register # Empty /\ register[r] # None
  /\ SetEntry(r, r, "Success") /\ Goto(r, "success")
  /\ UNCHANGED <<register, mapVars, kv, old, reported, crashes>>

\* _set_discovery_request_processed() reads the entry (an exception when it
\* is not there, or the file cannot be read) and sets it.  After an exception
\* process() calls it once more, with a failure; a second one ends the thread.
Processed(r) ==
  /\ \/ Running(r, "map") /\ todo[r] = {}
     \/ Running(r, "failing")
  /\ LET status == IF at[r] = "map" THEN "Success" ELSE "Failed" IN
     IF register = Empty \/ (register # Empty /\ register[r] = None)
     THEN Goto(r, IF at[r] = "map" THEN "failing" ELSE "ended") /\ UNCHANGED io
     ELSE SetEntry(r, r, status) /\ Goto(r, IF at[r] = "map" THEN "success" ELSE "failed")
  /\ UNCHANGED <<register, mapVars, kv, old, reported, crashes>>

\* The steps of the sets above.
ThreadIo(r) ==
  \/ IoLoad(r, IF at[r] \in {"add", "success"} THEN "failing" ELSE "ended")
  \/ IoOpen(r)
  \/ IoWrite(r, IF at[r] = "add" THEN "map" ELSE "ended")

-----------------------------------------------------------------------------
(* get_processing_status(), by a caller that asks until it has an answer.  *)

AskOr(r, expired) ==
  /\ at[Caller] = "idle" /\ reported[r] \notin Final
  /\ register # Empty /\ register[r] # None
  /\ IF expired
     THEN SetEntry(Caller, r, "Failed") /\ Goto(Caller, r) /\ UNCHANGED reported
     ELSE reported' = [reported EXCEPT ![r] = register[r]] /\ UNCHANGED <<io, at>>
  /\ UNCHANGED <<register, mapVars, kv, old, crashes>>

AskNeverExpired(r) == AskOr(r, FALSE)
Ask(r) == AskOr(r, r \in old)

\* The failure is stored, and the status is read again.
CallerIo ==
  \/ IoLoad(Caller, "idle") \/ IoOpen(Caller) \/ IoWrite(Caller, at[Caller])

Answer(r) ==
  /\ at[Caller] = r /\ io[Caller] = NoIo
  /\ reported' = [reported EXCEPT ![r] = IF register = Empty THEN @ ELSE register[r]]
  /\ Goto(Caller, "idle")
  /\ UNCHANGED <<register, mapVars, kv, old, io, crashes>>

\* Time passes expiry_sec for the entry of r.
Expire(r) ==
  /\ r \notin old /\ register # Empty /\ register[r] # None
  /\ reported[r] \notin Final
  /\ old' = old \cup {r}
  /\ UNCHANGED <<register, mapVars, kv, at, io, reported, crashes>>

\* The process of the requests dies; the caller is in another one.
Crash ==
  /\ crashes = 0 /\ crashes' = 1
  /\ at' = [t \in Threads |-> IF t = Caller THEN at[t] ELSE "ended"]
  /\ io' = [t \in Threads |-> IF t = Caller THEN io[t] ELSE NoIo]
  /\ set' = [r \in Request |-> NoSet]
  /\ UNCHANGED <<register, maps, todo, written, raced, kv, old, reported>>

ThreadStep(r) ==
  \/ Start(r) \/ Add(r) \/ UpdateMap(r) \/ MapLoad(r) \/ MapOpen(r) \/ MapWrite(r)
  \/ Processed(r) \/ ThreadIo(r)

Next ==
  \/ \E r \in Request : ThreadStep(r)
  \/ \E r \in Asked : Ask(r) \/ Answer(r) \/ Expire(r)
  \/ CallerIo \/ Crash

\* Threads run, time passes, and the caller comes back to every request that
\* is asked for and not settled.
Fairness ==
  /\ \A r \in Request : WF_vars(ThreadStep(r))
  /\ \A r \in Asked : WF_vars(Expire(r)) /\ SF_vars(Ask(r))
  /\ WF_vars(CallerIo \/ \E r \in Asked : Answer(r))

Spec == Init /\ [][Next]_vars /\ Fairness

-----------------------------------------------------------------------------
(* Properties.                                                             *)

(* A request that is registered is settled in the end: whether its thread  *)
(* succeeds, fails or dies, or another one writes over its status, the     *)
(* caller is told so in the end, unless the entry is lost for good, to a   *)
(* concurrent set or to a crash in the middle of one.                      *)
Registered(r) == register # Empty /\ register[r] # None

Settles ==
  \A r \in Asked :
    (Registered(r) ~> reported[r] \in Final) \/ <>[]~Registered(r)

\* The types of the files, the threads and the sets they are in.
Statuses == {None, "In-progress", "Success", "Failed"}
Steps == {"idle", "new", "add", "map", "failing", "success", "failed", "ended"}
IoState == [step : {"no", "load", "open", "write"}, req : Request \cup {None},
            status : Statuses, payload : [Request -> Statuses] \cup {None}]
SetState == [step : {"no", "load", "open", "write"}, url : Maps \cup {None},
             part : AnyPart \cup {None}, payload : SUBSET (Request \X AnyPart)]
TypeOK ==
  /\ register = Empty \/ register \in [Request -> Statuses]
  /\ \A u \in Maps : maps[u] = Empty \/ maps[u] \subseteq Request \X AnyPart
  /\ DOMAIN maps = Maps /\ todo \in [Request -> SUBSET AnyPart]
  /\ set \in [Request -> SetState]
  /\ at \in [Threads -> Steps \cup Request]
  /\ io \in [Threads -> IoState]
  /\ reported \in [Request -> Statuses]

\* A set in progress has an entry to set, and the register that it has loaded.
IoSound ==
  \A t \in Threads :
    /\ io[t].step # "no" => io[t].req \in Request
    /\ io[t].step \in {"open", "write"} => io[t].payload \in [Request -> Statuses]

\* The maps that requests have called Resource.init() with: only they are in use.
Begun == {Url[q] : q \in {p \in Request : at[p] # "new"}}
MapsBegun ==
  /\ \A r \in Request : at[r] \in {"add", "map"} => kv \in Begun
  /\ \A r \in Request : set[r].step # "no" => set[r].url \in Begun /\ set[r].part \in AnyPart

\* Unless sets of a map overlapped, one that has loaded it is the only one, and
\* has loaded all that was written.
SetsSound ==
  \A r \in Request : set[r].step \in {"open", "write"} /\ set[r].url \notin raced =>
    /\ ~Setting(r, set[r].url)
    /\ \A q \in Request, k \in AnyPart :
         <<q, k, set[r].url>> \in written => <<q, k>> \in set[r].payload

\* What was written to a map that can be read is there, unless sets overlapped.
WrittenStays ==
  \A u \in Maps \ raced : maps[u] # Empty =>
    \A q \in Request, k \in AnyPart : <<q, k, u>> \in written => <<q, k>> \in maps[u]

\* A part was written to a map in use.
WrittenOnce(r, k) == \E u \in Begun : <<r, k, u>> \in written

\* Wherever a success is on its way to the caller, in a set, in what a set has
\* loaded and will write back, or in the register, the parts were written.
Claimed(r) ==
  \/ reported[r] = "Success"
  \/ register # Empty /\ register[r] = "Success"
  \/ \E t \in Threads :
       \/ io[t].step # "no" /\ io[t].req = r /\ io[t].status = "Success"
       \/ io[t].step \in {"open", "write"} /\ io[t].payload[r] = "Success"
SuccessEarned ==
  \A r \in Request : \A k \in Parts[r] : k \notin todo[r] \/ Claimed(r) => WrittenOnce(r, k)

DiscoveryInv ==
  TypeOK /\ IoSound /\ MapsBegun /\ SetsSound /\ WrittenStays /\ SuccessEarned

(* A request is reported a success only if every part of it was written to *)
(* its own map or, since Resource._kv is shared, to the map of another     *)
(* request that has begun; and a part is missing from that map later on    *)
(* only if the map cannot be read at all, while it is rewritten or after a *)
(* crash in a rewrite, or if one set of the map loaded it while another    *)
(* one was under way.                                                      *)
SuccessHasParts ==
  \A r \in Request : reported[r] = "Success" =>
    \A k \in Parts[r] : \E q \in Request :
      LET u == Url[q] IN
      /\ q = r \/ at[q] # "new"
      /\ <<r, k, u>> \in written
      /\ u \in raced \/ maps[u] = Empty \/ <<r, k>> \in maps[u]
=============================================================================

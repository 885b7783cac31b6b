------------------------------ MODULE Activity ------------------------------
(***************************************************************************)
(* The activity tracker: handles (ActivityEntry) hold a copy of an         *)
(* activity, and every operation changes the copy and writes it with       *)
(* KvStore.set() into a JSON file that all processes share.  set() loads   *)
(* the file, opens it for writing, which empties it, and writes it.        *)
(***************************************************************************)
EXTENDS Naturals, FiniteSets

CONSTANTS
  Process,    \* each with at most one handle at a time
  Id,         \* activity ids
  Percent,    \* values of pct_progress given to update()
  MaxSets,    \* bound on the calls of KvStore.set()
  None

VARIABLES
  file,       \* file[a]: the entry stored, or None; or Empty
  handle,     \* handle[p]: the ActivityEntry that p has, or None
  call,       \* call[p]: where p is in set(), which one, and the payload it has loaded
  stored,     \* what the file held when it was last written whole
  sets

vars == <<file, handle, call, stored, sets>>

Empty == None
Idle == [step |-> "idle", number |-> 0, payload |-> None]
Entry(status, pct, version) == [status |-> status, pct |-> pct, version |-> version]

Init ==
  /\ file = [a \in Id |-> None]
  /\ handle = [p \in Process |-> None]
  /\ call = [p \in Process |-> Idle]
  /\ stored = file
  /\ sets = 0

-----------------------------------------------------------------------------
(* Operations.  Each changes the handle and enters KvStore.set().          *)

IsComplete(e) == e.status = "COMPLETED"

BeginSet(p, a, e) ==
  /\ sets < MaxSets
  /\ handle' = [handle EXCEPT ![p] = [id |-> a, entry |-> e]]
  /\ call' = [call EXCEPT ![p] = [step |-> "load", number |-> sets + 1, payload |-> None]]
  /\ sets' = sets + 1
  /\ UNCHANGED <<file, stored>>

Holds(p) == call[p] = Idle /\ handle[p] # None

\* Activity.create(): an id of its own, 0 percent, NEW.
Create(p, a) ==
  /\ call[p] = Idle
  /\ stored[a] = None
  /\ \A q \in Process : handle[q] # None => handle[q].id # a
  /\ BeginSet(p, a, Entry("NEW", 0, 0))

\* Activity.get(): a handle on a copy of what is stored, or an exception.
Get(p, a) ==
  /\ call[p] = Idle /\ file # Empty /\ file[a] # None
  /\ handle' = [handle EXCEPT ![p] = [id |-> a, entry |-> file[a]]]
  /\ UNCHANGED <<file, call, stored, sets>>

\* Activity.update(): not of a completed activity, and not downwards, by the
\* copy in the handle; set_progress() wants 0..99.
UpdateIf(p, pct, allowed) ==
  /\ Holds(p) /\ allowed /\ pct \in 0..99
  /\ BeginSet(p, handle[p].id, Entry("IN_PROGRESS", pct, handle[p].entry.version))

UpdateAnyTime(p, pct) == UpdateIf(p, pct, TRUE)
Update(p, pct) ==
  UpdateIf(p, pct, Holds(p) /\ ~IsComplete(handle[p].entry) /\ pct >= handle[p].entry.pct)

\* Activity.finish(): of any activity, a completed one too.
Finish(p) ==
  /\ Holds(p)
  /\ BeginSet(p, handle[p].id, Entry("COMPLETED", 100, handle[p].entry.version))

\* Activity.suspend().
Suspend(p) ==
  /\ Holds(p) /\ ~IsComplete(handle[p].entry)
  /\ BeginSet(p, handle[p].id, [handle[p].entry EXCEPT !.status = "SUSPENDED"])

-----------------------------------------------------------------------------
(* KvStore.set(): load(), payload.set(), dump().                           *)

\* A file that is empty cannot be parsed: the exception leaves the handle as
\* the operation changed it.
SetLoad(p) ==
  /\ call[p].step = "load"
  /\ call' = [call EXCEPT ![p] = IF file = Empty THEN Idle
                                 ELSE [@ EXCEPT !.step = "open", !.payload = file]]
  /\ UNCHANGED <<file, handle, stored, sets>>

SetOpen(p) ==
  /\ call[p].step = "open"
  /\ file' = Empty
  /\ call' = [call EXCEPT ![p].step = "write"]
  /\ UNCHANGED <<handle, stored, sets>>

SetWrite(p) ==
  /\ call[p].step = "write"
  /\ LET a == handle[p].id  new == [handle[p].entry EXCEPT !.version = call[p].number] IN
     /\ file' = [call[p].payload EXCEPT ![a] = new]
     /\ handle' = [handle EXCEPT ![p].entry = new]
  /\ stored' = file'
  /\ call' = [call EXCEPT ![p] = Idle]
  /\ UNCHANGED sets

\* A process dies: its handle is gone, the file may stay empty.
Crash(p) ==
  /\ handle[p] # None \/ call[p] # Idle
  /\ handle' = [handle EXCEPT ![p] = None]
  /\ call' = [call EXCEPT ![p] = Idle]
  /\ UNCHANGED <<file, stored, sets>>

Next ==
  \E p \in Process :
    \/ \E a \in Id : Create(p, a) \/ Get(p, a)
    \/ \E pct \in Percent : Update(p, pct)
    \/ Finish(p) \/ Suspend(p)
    \/ SetLoad(p) \/ SetOpen(p) \/ SetWrite(p) \/ Crash(p)

Spec == Init /\ [][Next]_vars

-----------------------------------------------------------------------------
(* Properties.                                                             *)

\* new may be written over old.
Follows(new, old) ==
  old # None => new # None /\ (IsComplete(old) => IsComplete(new)) /\ new.pct >= old.pct

(* A set() leaves every activity that is stored as far as it was: none is  *)
(* lost, none that is completed is taken back, no progress goes down (the  *)
(* checks of update() and suspend()).  There are two causes for anything   *)
(* else, at whatever point of a history with overlaps, second handles and  *)
(* deaths: another set() has written since this one loaded, or, for the    *)
(* activity of its own handle, the handle is not on what is stored.        *)
FinishedStays ==
  [][\A p \in Process, a \in Id : stored' # stored /\ call'[p] # call[p] =>
       \/ Follows(stored'[a], stored[a])
       \/ call[p].payload # stored
       \/ handle[p].id = a /\ handle[p].entry.version # stored[a].version]_vars

-----------------------------------------------------------------------------
(* Why FinishedStays holds: an entry has a version of its own, that of the *)
(* set() that wrote it, and a handle with the version of an entry has what *)
(* that entry was, or what may be written over it.                         *)

Entries == [status : {"NEW", "IN_PROGRESS", "SUSPENDED", "COMPLETED"}, pct : 0..100, version : Nat]
Handles == [id : Id, entry : Entries]
Payloads == [Id -> Entries \cup {None}]
Loading == [step : {"load"}, number : Nat, payload : {None}]
Dumping == [step : {"open", "write"}, number : Nat, payload : Payloads]

TypeOK ==
  /\ file \in Payloads \cup {Empty} /\ stored \in Payloads
  /\ handle \in [Process -> Handles \cup {None}]
  /\ call \in [Process -> Loading \cup Dumping \cup {Idle}]
  /\ \A p \in Process : call[p] # Idle => handle[p] # None
  /\ sets \in Nat

\* What is stored, and what the calls under way have loaded.
Contents == {stored} \cup {call[p].payload : p \in {q \in Process : call[q] \in Dumping}}

\* Within a content and across them: the same version is the same entry.
SameEntry(f, g) ==
  \A a \in Id : f[a] # None /\ g[a] # None /\ f[a].version = g[a].version => f[a] = g[a]

\* Handles on entries of a content.
HandlesFit(f) ==
  \A p \in Process : handle[p] # None =>
    LET e == f[handle[p].id] IN
    e # None /\ e.version = handle[p].entry.version => Follows(handle[p].entry, e)

\* The numbers of sets under way are in no content and in no handle.
Fresh(n) ==
  /\ n \in 1..sets
  /\ \A f \in Contents, a \in Id : f[a] # None => f[a].version # n
  /\ \A p \in Process : handle[p] # None => handle[p].entry.version # n

ActivityInv ==
  /\ TypeOK
  /\ file # Empty => file = stored
  /\ \A f \in Contents : HandlesFit(f) /\ \A g \in Contents : SameEntry(f, g)
  /\ \A f \in Contents, a \in Id : f[a] # None => f[a].version \in 1..sets
  /\ \A p \in Process : handle[p] # None => handle[p].entry.version <= sets
  /\ \A p \in Process : call[p] # Idle =>
       /\ Fresh(call[p].number)
       /\ \A q \in Process \ {p} : call[q].number # call[p].number
=============================================================================

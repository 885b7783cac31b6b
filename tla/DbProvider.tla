----------------------------- MODULE DbProvider -----------------------------
(***************************************************************************)
(* The lazy creation of a database by AsyncDataBase: the first storage     *)
(* call on a model creates its database, calls made meanwhile wait for a   *)
(* ThreadSafeEvent, and when a creation fails one of the later calls tries *)
(* again.                                                                  *)
(*                                                                         *)
(* Everything runs on one asyncio loop (external): a FIFO queue of ready   *)
(* handles.  set(), clear() and wait() of ThreadSafeEvent do not act when  *)
(* they are called, but post handles to that queue.                        *)
(***************************************************************************)
EXTENDS Naturals, Sequences

CONSTANTS
  Call,      \* storage calls on one model
  None,
  Failures   \* how many creations may fail

ASSUME ConstantsAssumption == None \notin Call /\ Failures \in Nat

\* Handles from the end of Event.wait() to the next step of the caller: the
\* wait task, the concurrent future, the wrapped future, asyncio.wait().
Hops == 4

VARIABLES
  ready,    \* the loop's queue of handles
  value,    \* the flag of the event
  waiters,  \* the calls, in order, whose Event.wait() awaits the event
  status,   \* _database_status
  made,     \* successful creations
  failed,   \* failed creations
  pc        \* pc[c]: where a call is

vars == <<ready, value, waiters, status, made, failed, pc>>

Kinds == {"run", "spawn", "wait", "hop", "set", "clear"}
Handle == [kind : Kinds, call : Call \cup {None}, n : 0..Hops]
Places == {"new", "check", "creating", "created", "failed", "waiting", "done",
           "raised"}

TypeOK ==
  /\ ready \in Seq(Handle)
  /\ value \in BOOLEAN
  /\ waiters \in Seq(Call)
  /\ status \in {"not created", "in progress", "ready"}
  /\ made \in 0..1 /\ failed \in 0..Failures
  /\ pc \in [Call -> Places]

Init ==
  /\ ready = <<>> /\ value = FALSE /\ waiters = <<>>
  /\ status = "not created" /\ made = 0 /\ failed = 0
  /\ pc = [c \in Call |-> "new"]

Posted(kind, c) == [kind |-> kind, call |-> c, n |-> 0]
Hop(c, n) == [kind |-> "hop", call |-> c, n |-> n]

\* The loop runs the handle at the head of its queue.
Runs(kind, c) == ready # <<>> /\ Head(ready).kind = kind /\ Head(ready).call = c

-----------------------------------------------------------------------------
(* The storage call                                                        *)

\* A coroutine calls the storage.
Begin(c) ==
  /\ pc[c] = "new"
  /\ pc' = [pc EXCEPT ![c] = "check"]
  /\ ready' = Append(ready, Posted("run", c))
  /\ UNCHANGED <<value, waiters, status, made, failed>>

\* Mutant of WaitDbCreation: the status changes when the creation has ended.
WaitDbCreationLate(c, q) ==
  /\ pc' = [pc EXCEPT ![c] = CASE status = "ready" -> "done"
                              [] status = "not created" -> "creating"
                              [] status = "in progress" -> "waiting"]
  /\ ready' = q
  /\ UNCHANGED <<value, waiters, status, made, failed>>

\* _wait_db_creation(): done, or create the database, or post a wait; q is the
\* rest of the queue.
WaitDbCreation(c, q) ==
  /\ \/ /\ status = "ready"
        /\ pc' = [pc EXCEPT ![c] = "done"]
        /\ ready' = q /\ UNCHANGED status
     \/ /\ status = "not created"
        /\ pc' = [pc EXCEPT ![c] = "creating"]
        /\ status' = "in progress"
        /\ ready' = q
     \/ /\ status = "in progress"
        /\ pc' = [pc EXCEPT ![c] = "waiting"]
        /\ ready' = Append(q, Posted("spawn", c)) /\ UNCHANGED status
  /\ UNCHANGED <<value, waiters, made, failed>>

RunCheck(c) ==
  /\ Runs("run", c) /\ pc[c] = "check"
  /\ WaitDbCreation(c, Tail(ready))

\* A woken call posts clear() and looks at the status again.
RunWoken(c) ==
  /\ Runs("run", c) /\ pc[c] = "waiting"
  /\ WaitDbCreation(c, Append(Tail(ready), Posted("clear", None)))

\* create_database() of the driver ends: Consul answered, or did not.
CreationEnds(c, ok) ==
  /\ pc[c] = "creating"
  /\ ok \/ failed < Failures
  /\ failed' = IF ok THEN failed ELSE failed + 1
  /\ pc' = [pc EXCEPT ![c] = IF ok THEN "created" ELSE "failed"]
  /\ ready' = Append(ready, Posted("run", c))
  /\ UNCHANGED <<value, waiters, status, made>>

\* Mutant of RunCreated: set() is not called.
RunCreatedNoSet(c) ==
  /\ Runs("run", c) /\ pc[c] \in {"created", "failed"}
  /\ IF pc[c] = "created"
     THEN /\ status' = "ready" /\ made' = made + 1
          /\ pc' = [pc EXCEPT ![c] = "done"]
     ELSE /\ status' = "not created" /\ UNCHANGED made
          /\ pc' = [pc EXCEPT ![c] = "raised"]
  /\ ready' = Tail(ready)
  /\ UNCHANGED <<value, waiters, failed>>

\* The rest of create_database(), and of the call.
RunCreated(c) ==
  /\ Runs("run", c) /\ pc[c] \in {"created", "failed"}
  /\ IF pc[c] = "created"
     THEN /\ status' = "ready" /\ made' = made + 1
          /\ pc' = [pc EXCEPT ![c] = "done"]
     ELSE /\ status' = "not created" /\ UNCHANGED made
          /\ pc' = [pc EXCEPT ![c] = "raised"]
  /\ ready' = Append(Tail(ready), Posted("set", None))
  /\ UNCHANGED <<value, waiters, failed>>

-----------------------------------------------------------------------------
(* ThreadSafeEvent                                                         *)

\* The posted wait() becomes a task, whose first step comes later still.
RunSpawn(c) ==
  /\ Runs("spawn", c)
  /\ ready' = Append(Tail(ready), Posted("wait", c))
  /\ UNCHANGED <<value, waiters, status, made, failed, pc>>

\* Event.wait(): return at once, or await the event.
RunWait(c) ==
  /\ Runs("wait", c)
  /\ IF value
     THEN ready' = Append(Tail(ready), Hop(c, Hops - 1)) /\ UNCHANGED waiters
     ELSE ready' = Tail(ready) /\ waiters' = Append(waiters, c)
  /\ UNCHANGED <<value, status, made, failed, pc>>

\* Event.set() sets the flag and wakes the waiters.
RunSet ==
  /\ Runs("set", None)
  /\ value' = TRUE
  /\ waiters' = <<>>
  /\ ready' = Tail(ready) \o [k \in 1..Len(waiters) |-> Hop(waiters[k], Hops)]
  /\ UNCHANGED <<status, made, failed, pc>>

RunClear ==
  /\ Runs("clear", None)
  /\ value' = FALSE
  /\ ready' = Tail(ready)
  /\ UNCHANGED <<waiters, status, made, failed, pc>>

\* The wake-up goes through its futures to the caller.
RunHop(c) ==
  /\ Runs("hop", c)
  /\ ready' = Append(Tail(ready), IF Head(ready).n > 1 THEN Hop(c, Head(ready).n - 1)
                                                       ELSE Posted("run", c))
  /\ UNCHANGED <<value, waiters, status, made, failed, pc>>

LoopStep ==
  \/ \E c \in Call : \/ RunCheck(c) \/ RunWoken(c) \/ RunCreated(c)
                     \/ RunSpawn(c) \/ RunWait(c) \/ RunHop(c)
  \/ RunSet \/ RunClear

Next ==
  \/ \E c \in Call : Begin(c) \/ \E ok \in BOOLEAN : CreationEnds(c, ok)
  \/ LoopStep

\* The loop runs, and the driver's requests end.
Fairness ==
  /\ WF_vars(LoopStep)
  /\ \A c \in Call : WF_vars(\E ok \in BOOLEAN : CreationEnds(c, ok))

Spec == Init /\ [][Next]_vars /\ Fairness

-----------------------------------------------------------------------------
(* Properties                                                              *)

Creating(c) == pc[c] \in {"creating", "created", "failed"}

\* However calls and failures interleave, at most one call is creating the
\* database, the status says so, and the database is created once (the NOTE at
\* consul_db/storage.py lines 245-246).
CreatedOnce ==
  /\ \A c, d \in Call : Creating(c) /\ Creating(d) => c = d
  /\ (\E c \in Call : Creating(c)) <=> status = "in progress"
  /\ made = IF status = "ready" THEN 1 ELSE 0

\* Every storage call goes on or raises in the end: set() wakes the coroutines
\* that wait ("weak up other waiting coroutines", db_provider.py line 169).
CallsReturn == \A c \in Call : (pc[c] = "check") ~> (pc[c] \in {"done", "raised"})

\* As long as no creation fails every storage call goes on, although each call
\* that is woken clears the event others wait for (lines 93-100).
ReturnsIfCreated ==
  \A c \in Call : (pc[c] = "check") ~> (pc[c] = "done" \/ failed > 0)
=============================================================================

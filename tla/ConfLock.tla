------------------------------ MODULE ConfLock ------------------------------
(***************************************************************************)
(* ConfStore.lock(), unlock() and test_lock() over a write-through KV      *)
(* backend shared by several processes (Consul, or a directory).           *)
(*                                                                         *)
(* The lock of a domain is two keys, "lock>D>owner" and "lock>D>end_time", *)
(* and every read, put or delete of a key is one call to the backend:      *)
(* other processes run between any two of them.  lock() tests the keys,    *)
(* puts its name, puts its end time, sleeps, and reads the owner back.     *)
(*                                                                         *)
(* Time is discrete.  A point in time is kept as the number of instants    *)
(* until it is past: 0 is past, and a Tick takes one off every timer.      *)
(***************************************************************************)
EXTENDS Naturals

CONSTANTS
  Proc,        \* lock owners, one process each
  None,        \* an absent (or truncated, i.e. empty) key
  Sleep,       \* the sleep between the puts and the check, lock() line 310
  Delta,       \* bound on the delay from a read (or from the computation of
               \*   the end time) to the effect of the write that follows it
  Duration,    \* Duration[p]: the duration p passes to lock()
  Unlockers,   \* processes that call unlock()
  Forcers,     \* those of them that may pass force=True
  Faulty,      \* processes that may die, or whose backend calls may raise
  Backends     \* the backends the lock may be kept in: "dir", where a put
               \*   truncates the file and then writes it (DirKvPayload), or
               \*   "consul", where a put is atomic, but may be sent again
               \*   by ExponentialBackoff (ConsulKvPayload)

ASSUME ConstantsAssumption ==
  /\ None \notin Proc /\ None \notin Nat
  /\ Sleep \in Nat /\ Delta \in Nat
  /\ Duration \in [Proc -> Nat]
  /\ Unlockers \subseteq Proc /\ Forcers \subseteq Unlockers
  /\ Faulty \subseteq Proc
  /\ Backends \subseteq {"consul", "dir"}

VARIABLES
  backend,  \* the backend of the configuration
  owner,    \* value of LOCK_OWNER_KEY_PREFIX in the backend
  endTime,  \* value of LOCK_END_TIME_KEY_PREFIX in the backend, or None
  pc,       \* the backend call a process is about to make
  timer,    \* instants left to make it in time, or left to sleep
  stamp,    \* lock_end_time, the local variable of lock()
  lease     \* instants left of the lock that lock() last granted

vars == <<backend, owner, endTime, pc, timer, stamp, lease>>

\* Calls that write the backend, each to take effect within Delta.
WriteCalls ==
  {"setOwner", "writeOwner", "setEnd", "writeEnd", "delOwner", "delEnd"}

Calls == WriteCalls \cup {"idle", "testEnd", "stamp", "verify"}

TypeOK ==
  /\ backend \in Backends
  /\ owner \in Proc \cup {None}
  /\ endTime \in Nat \cup {None}
  /\ pc \in [Proc -> Calls]
  /\ timer \in [Proc -> Nat]
  /\ stamp \in [Proc -> Nat]
  /\ lease \in [Proc -> Nat]

Init ==
  /\ backend \in Backends
  /\ owner = None
  /\ endTime = None
  /\ pc = [p \in Proc |-> "idle"]
  /\ timer = [p \in Proc |-> 0]
  /\ stamp = [p \in Proc |-> 0]
  /\ lease = [p \in Proc |-> 0]

Goto(p, c, t) ==
  /\ pc' = [pc EXCEPT ![p] = c]
  /\ timer' = [timer EXCEPT ![p] = t]

-----------------------------------------------------------------------------
(* lock(), which begins with test_lock()                                   *)

\* test_lock() reads the owner key: free when absent, empty or one's own.
Lock(p) ==
  /\ pc[p] = "idle"
  /\ IF owner \in {None, p} THEN Goto(p, "setOwner", Delta)
                            ELSE Goto(p, "testEnd", 0)
  /\ UNCHANGED <<owner, endTime, stamp, lease>>

\* Mutant of Expired: an end time in the past still locks.
ExpiredNeverPast == endTime = None

\* test_lock() reads the end time: free when absent, empty or past;
\* otherwise lock() returns False.
Expired == endTime \in {None, 0}

\* Mutant of TestEnd: the end time is not looked at.
TestEndIgnored(p) ==
  /\ pc[p] = "testEnd"
  /\ Goto(p, "setOwner", Delta)
  /\ UNCHANGED <<owner, endTime, stamp, lease>>

TestEnd(p) ==
  /\ pc[p] = "testEnd"
  /\ IF Expired THEN Goto(p, "setOwner", Delta) ELSE Goto(p, "idle", 0)
  /\ UNCHANGED <<owner, endTime, stamp, lease>>

\* The put of the owner key.
SetOwner(p) ==
  /\ \/ pc[p] = "setOwner" /\ backend = "consul"
     \/ pc[p] = "writeOwner"
  /\ owner' = p
  /\ Goto(p, "stamp", 0)
  /\ UNCHANGED <<endTime, stamp, lease>>

TruncOwner(p) ==
  /\ pc[p] = "setOwner" /\ backend = "dir"
  /\ owner' = None
  /\ Goto(p, "writeOwner", timer[p])
  /\ UNCHANGED <<endTime, stamp, lease>>

\* lock_end_time = time.time() + duration
Stamp(p) ==
  /\ pc[p] = "stamp"
  /\ stamp' = [stamp EXCEPT ![p] = Duration[p]]
  /\ Goto(p, "setEnd", Delta)
  /\ UNCHANGED <<owner, endTime, lease>>

\* Mutant of SetEnd: no sleep.
SetEndNoSleep(p) ==
  /\ pc[p] = "setEnd"
  /\ endTime' = stamp[p]
  /\ Goto(p, "verify", 0)
  /\ UNCHANGED <<owner, stamp, lease>>

\* The put of the end time, after which the process sleeps.
SetEnd(p) ==
  /\ \/ pc[p] = "setEnd" /\ backend = "consul"
     \/ pc[p] = "writeEnd"
  /\ endTime' = stamp[p]
  /\ Goto(p, "verify", Sleep)
  /\ UNCHANGED <<owner, stamp, lease>>

TruncEnd(p) ==
  /\ pc[p] = "setEnd" /\ backend = "dir"
  /\ endTime' = None
  /\ Goto(p, "writeEnd", timer[p])
  /\ UNCHANGED <<owner, stamp, lease>>

\* Mutant of Verify: the owner is not read back.
VerifyUnchecked(p) ==
  /\ pc[p] = "verify" /\ timer[p] = 0
  /\ lease' = [lease EXCEPT ![p] = stamp[p]]
  /\ Goto(p, "idle", 0)
  /\ UNCHANGED <<owner, endTime, stamp>>

\* The sleep is over: lock() returns True when the owner is still the caller.
Verify(p) ==
  /\ pc[p] = "verify" /\ timer[p] = 0
  /\ lease' = IF owner = p THEN [lease EXCEPT ![p] = stamp[p]] ELSE lease
  /\ Goto(p, "idle", 0)
  /\ UNCHANGED <<owner, endTime, stamp>>

-----------------------------------------------------------------------------
(* unlock()                                                                *)

\* A caller of unlock() no longer counts on its lock, whatever it returns.
Unlock(p, force) ==
  /\ pc[p] = "idle"
  /\ lease' = [lease EXCEPT ![p] = 0]
  /\ IF owner = p \/ force THEN Goto(p, "delOwner", Delta)
                           ELSE Goto(p, "idle", 0)
  /\ UNCHANGED <<owner, endTime, stamp>>

DelOwner(p) ==
  /\ pc[p] = "delOwner"
  /\ owner' = None
  /\ Goto(p, "delEnd", Delta)
  /\ UNCHANGED <<endTime, stamp, lease>>

DelEnd(p) ==
  /\ pc[p] = "delEnd"
  /\ endTime' = None
  /\ Goto(p, "idle", 0)
  /\ UNCHANGED <<owner, stamp, lease>>

-----------------------------------------------------------------------------
(* Failures and time                                                       *)

\* ExponentialBackoff: the write took effect, the answer was lost, and the
\* decorator makes the call again.
Resend(p) ==
  /\ backend = "consul"
  /\ \/ pc[p] = "setOwner" /\ owner' = p /\ UNCHANGED endTime
     \/ pc[p] = "setEnd" /\ endTime' = stamp[p] /\ UNCHANGED owner
     \/ pc[p] = "delOwner" /\ owner' = None /\ UNCHANGED endTime
     \/ pc[p] = "delEnd" /\ endTime' = None /\ UNCHANGED owner
  /\ UNCHANGED <<pc, timer, stamp, lease>>

\* The last try of a backend call raises: lock() or unlock() ends there.
CallFails(p) ==
  /\ pc[p] # "idle"
  /\ Goto(p, "idle", 0)
  /\ UNCHANGED <<owner, endTime, stamp, lease>>

\* The process dies, and with it everything it counted on.
Crash(p) ==
  /\ Goto(p, "idle", 0)
  /\ lease' = [lease EXCEPT ![p] = 0]
  /\ UNCHANGED <<owner, endTime, stamp>>

Less(t) == IF t > 0 THEN t - 1 ELSE 0

\* One instant passes, unless a write would then miss its bound.
Tick ==
  /\ \A p \in Proc : pc[p] \in WriteCalls => timer[p] > 0
  /\ endTime' = IF endTime = None THEN None ELSE Less(endTime)
  /\ timer' = [p \in Proc |-> Less(timer[p])]
  /\ stamp' = [p \in Proc |-> Less(stamp[p])]
  /\ lease' = [p \in Proc |-> Less(lease[p])]
  /\ UNCHANGED <<owner, pc>>

-----------------------------------------------------------------------------
\* The steps of a call under way, or the start of the next lock().
LockStep(p) ==
  \/ Lock(p) \/ TestEnd(p) \/ SetOwner(p) \/ TruncOwner(p)
  \/ Stamp(p) \/ SetEnd(p) \/ TruncEnd(p) \/ Verify(p)
  \/ DelOwner(p) \/ DelEnd(p)

Next ==
  /\ UNCHANGED backend
  /\ \/ \E p \in Proc : LockStep(p) \/ Resend(p)
     \/ \E p \in Unlockers : \E force \in BOOLEAN :
          (force => p \in Forcers) /\ Unlock(p, force)
     \/ \E p \in Faulty : CallFails(p) \/ Crash(p)
     \/ Tick

Spec == Init /\ [][Next]_vars

\* Time goes on, and a process that is not faulty keeps calling lock() until
\* it is granted (as the callers in the tests do) and makes the calls lock()
\* and unlock() are made of.
FairSpec ==
  /\ Spec
  /\ WF_vars(Tick /\ UNCHANGED backend)
  /\ \A p \in Proc \ Faulty : WF_vars(LockStep(p) /\ UNCHANGED backend)

-----------------------------------------------------------------------------
(* Properties                                                              *)

\* lock() never grants the lock to one process while another one, to which
\* it was granted before, still has it ("false if it is already acquired by
\* someone", lock() lines 286-287).
MutualExclusion ==
  \A p, q \in Proc : lease[p] > 0 /\ lease[q] > 0 => p = q

\* The conditions under which lock() is safe: it is Fischer's protocol, whose
\* delay must be longer than a write may take; the puts are atomic; everybody
\* asks for the same duration, longer than the delays; and nobody unlocks.
Disciplined ==
  /\ Delta < Sleep /\ Backends = {"consul"} /\ Unlockers = {}
  /\ \A p, q \in Proc : Duration[p] = Duration[q]

\* q has tested the lock and its name is, or may still become, the owner's.
Claims(q) == pc[q] = "setOwner" \/ (pc[q] \in {"stamp", "setEnd"} /\ owner = q)

\* The inductive invariant behind MutualExclusion.
Reachable ==
  /\ \A p \in Proc : pc[p] \notin {"writeOwner", "writeEnd", "delOwner", "delEnd"}
  /\ \A p \in Proc : pc[p] \in {"setOwner", "setEnd"} => timer[p] <= Delta
  /\ \A p \in Proc : stamp[p] <= Duration[p] /\ lease[p] <= Duration[p]

\* A key that was never put: nobody has got past its put.
FreshKeys ==
  /\ owner = None =>
       \A p \in Proc : lease[p] = 0 /\ pc[p] \notin {"stamp", "setEnd", "verify"}
  /\ endTime = None => \A p \in Proc : lease[p] = 0 /\ pc[p] # "verify"

\* The stored end time bounds what the owner was or will be granted.
EndTimeBounds ==
  /\ \A p \in Proc :
       pc[p] = "setEnd" => Duration[p] + timer[p] <= stamp[p] + Delta
  /\ \A p \in Proc : owner = p /\ pc[p] = "verify" => stamp[p] <= endTime + Delta
  /\ \A p \in Proc : owner = p /\ lease[p] > Sleep => lease[p] <= endTime + Delta

\* A lease outlives the owner's name, or a rival's test, by a sleep at most.
LeaseBounds ==
  /\ \A p \in Proc : owner # p => lease[p] <= Sleep
  /\ \A p, q \in Proc : p # q /\ Claims(q) => lease[p] <= Sleep
  /\ \A p, q \in Proc :
       p # q /\ owner = q /\ pc[q] = "verify" => lease[p] <= timer[q]
  /\ \A p, q \in Proc :
       p # q /\ owner = p /\ pc[p] = "verify" /\ pc[q] = "setOwner"
       => timer[q] < timer[p] \/ stamp[p] <= Sleep

LockInv ==
  Reachable /\ FreshKeys /\ EndTimeBounds /\ LeaseBounds /\ MutualExclusion

\* Once the faulty processes are gone, whatever step each of them died at, and
\* whether it was in lock() or in unlock(), lock() returns True again and again
\* to the others: what was left in the two keys runs out (lines 375-385).
Recovers ==
  <>[](\A p \in Faulty : pc[p] = "idle") =>
    []<><<\E p \in Proc \ Faulty : Verify(p) /\ owner = p>>_vars

\* Under the conditions of ConfLockProofs the lock is the abstract one.
LL == INSTANCE LeaseLock WITH Proc <- Proc, lease <- lease
LeaseLockSpec == LL!Spec
=============================================================================

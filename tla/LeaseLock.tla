----------------------------- MODULE LeaseLock -----------------------------
(***************************************************************************)
(* What a lock with a duration promises, abstractly: a process acquires    *)
(* the lock for a number of instants only when nobody else still holds it, *)
(* a lease runs out by itself, and a process may give its own lease up.    *)
(* ConfLock is the implementation in conf_store.py.                        *)
(***************************************************************************)
EXTENDS Naturals

CONSTANT Proc   \* the callers of lock()

VARIABLE lease  \* lease[p]: instants left of p's lease, 0 when p has none

Init == lease = [p \in Proc |-> 0]

\* The lock is granted to p; a holder may renew its lease.
Acquire(p) ==
  /\ \A q \in Proc \ {p} : lease[q] = 0
  /\ lease' = [lease EXCEPT ![p] = lease'[p]]
  /\ lease'[p] \in Nat

\* p gives its lease up, or dies.
Release(p) == lease' = [lease EXCEPT ![p] = 0]

\* One instant passes.
Tick == lease' = [p \in Proc |-> IF lease[p] > 0 THEN lease[p] - 1 ELSE 0]

Next == Tick \/ \E p \in Proc : Acquire(p) \/ Release(p)

Spec == Init /\ [][Next]_lease
=============================================================================

--------------------------- MODULE ConfLockProofs ---------------------------
(***************************************************************************)
(* What ConfLock guarantees for any number of processes, any sleep, any    *)
(* write delay and any duration.                                           *)
(***************************************************************************)
EXTENDS ConfLock, TLAPS

USE DEF Goto, Less

\* A step of a process or of time keeps the state well-typed.
LEMMA TypeStep == TypeOK /\ [Next]_vars => TypeOK'
<1> SUFFICES ASSUME TypeOK, [Next]_vars PROVE TypeOK'
  OBVIOUS
<1> USE ConstantsAssumption DEF TypeOK, Calls, WriteCalls
<1>0. UNCHANGED backend
  BY DEF Next, vars
<1> USE <1>0
<1>1. ASSUME NEW p \in Proc, LockStep(p) PROVE TypeOK'
  <2>1. CASE Lock(p)
    BY <2>1 DEF Lock
  <2>2. CASE TestEnd(p)
    BY <2>2 DEF TestEnd
  <2>3. CASE SetOwner(p)
    BY <2>3 DEF SetOwner
  <2>4. CASE TruncOwner(p)
    BY <2>4 DEF TruncOwner
  <2>5. CASE Stamp(p)
    BY <2>5 DEF Stamp
  <2>6. CASE SetEnd(p)
    BY <2>6 DEF SetEnd
  <2>7. CASE TruncEnd(p)
    BY <2>7 DEF TruncEnd
  <2>8. CASE Verify(p)
    BY <2>8 DEF Verify
  <2>9. CASE DelOwner(p)
    BY <2>9 DEF DelOwner
  <2>10. CASE DelEnd(p)
    BY <2>10 DEF DelEnd
  <2> QED BY <1>1, <2>1, <2>2, <2>3, <2>4, <2>5, <2>6, <2>7, <2>8, <2>9, <2>10 DEF LockStep
<1>2. ASSUME NEW p \in Proc, Resend(p) PROVE TypeOK'
  BY <1>2 DEF Resend
<1>3. ASSUME NEW p \in Unlockers, NEW force \in BOOLEAN, Unlock(p, force) PROVE TypeOK'
  BY <1>3 DEF Unlock
<1>4. ASSUME NEW p \in Faulty, CallFails(p) \/ Crash(p) PROVE TypeOK'
  BY <1>4 DEF CallFails, Crash
<1>5. CASE Tick
  BY <1>5 DEF Tick
<1>6. CASE UNCHANGED vars
  BY <1>6 DEF vars
<1> QED
  BY <1>1, <1>2, <1>3, <1>4, <1>5, <1>6 DEF Next

\* Whatever its callers do and however they fail, the two keys and the local
\* state of every process keep their types.
THEOREM TypeCorrect == Spec => []TypeOK
<1>1. Init => TypeOK
  BY DEF Init, TypeOK, Calls
<1> QED
  BY <1>1, TypeStep, PTL DEF Spec

-----------------------------------------------------------------------------
\* Under the discipline, every step preserves the inductive invariant.
LEMMA LockInvStep ==
  ASSUME Disciplined, TypeOK, LockInv, [Next]_vars
  PROVE  LockInv'
<1> USE ConstantsAssumption DEF TypeOK, Calls, LockInv
<1>1. ASSUME NEW r \in Proc, Lock(r) PROVE LockInv'
  <2>1. Reachable'
    BY <1>1 DEF Lock, Reachable
  <2>2. FreshKeys'
    BY <1>1 DEF Lock, FreshKeys
  <2>3. EndTimeBounds'
    BY <1>1 DEF Lock, EndTimeBounds
  <2>4. LeaseBounds'
    BY <1>1 DEF Lock, LeaseBounds, Claims
  <2>5. MutualExclusion'
    BY <1>1 DEF Lock, MutualExclusion
  <2> QED BY <2>1, <2>2, <2>3, <2>4, <2>5
<1>2. ASSUME NEW r \in Proc, TestEnd(r) PROVE LockInv'
  <2>1. Reachable'
    BY <1>2 DEF TestEnd, Expired, Reachable
  <2>2. FreshKeys'
    BY <1>2 DEF TestEnd, Expired, FreshKeys
  <2>3. EndTimeBounds'
    BY <1>2 DEF TestEnd, Expired, EndTimeBounds
  <2>4. LeaseBounds'
    BY <1>2 DEF TestEnd, Expired, EndTimeBounds, LeaseBounds, Claims, Disciplined
  <2>5. MutualExclusion'
    BY <1>2 DEF TestEnd, Expired, MutualExclusion
  <2> QED BY <2>1, <2>2, <2>3, <2>4, <2>5
<1>3. ASSUME NEW r \in Proc, SetOwner(r) PROVE LockInv'
  <2>1. Reachable'
    BY <1>3 DEF SetOwner, Reachable
  <2>2. FreshKeys'
    BY <1>3 DEF SetOwner, FreshKeys
  <2>3. EndTimeBounds'
    BY <1>3 DEF SetOwner, EndTimeBounds, LeaseBounds
  <2>4. LeaseBounds'
    BY <1>3 DEF SetOwner, Reachable, LeaseBounds, Claims
  <2>5. MutualExclusion'
    BY <1>3 DEF SetOwner, MutualExclusion
  <2> QED BY <2>1, <2>2, <2>3, <2>4, <2>5
<1>4. ASSUME NEW r \in Proc, Stamp(r) PROVE LockInv'
  <2>1. Reachable'
    BY <1>4 DEF Stamp, Reachable
  <2>2. FreshKeys'
    BY <1>4 DEF Stamp, FreshKeys
  <2>3. EndTimeBounds'
    BY <1>4 DEF Stamp, EndTimeBounds
  <2>4. LeaseBounds'
    BY <1>4 DEF Stamp, LeaseBounds, Claims
  <2>5. MutualExclusion'
    BY <1>4 DEF Stamp, MutualExclusion
  <2> QED BY <2>1, <2>2, <2>3, <2>4, <2>5
<1>5. ASSUME NEW r \in Proc, SetEnd(r) PROVE LockInv'
  <2>1. Reachable'
    BY <1>5 DEF SetEnd, Reachable
  <2>2. FreshKeys'
    BY <1>5 DEF SetEnd, Reachable, FreshKeys
  <2>3. EndTimeBounds'
    BY <1>5 DEF SetEnd, Reachable, EndTimeBounds, Disciplined
  <2>4. LeaseBounds'
    BY <1>5 DEF SetEnd, Reachable, LeaseBounds, Claims, Disciplined
  <2>5. MutualExclusion'
    BY <1>5 DEF SetEnd, MutualExclusion
  <2> QED BY <2>1, <2>2, <2>3, <2>4, <2>5
<1>6. ASSUME NEW r \in Proc, Verify(r) PROVE LockInv'
  <2>1. Reachable'
    BY <1>6 DEF Verify, Reachable
  <2>2. FreshKeys'
    BY <1>6 DEF Verify, FreshKeys
  <2>3. EndTimeBounds'
    BY <1>6 DEF Verify, EndTimeBounds
  <2>4. LeaseBounds'
    BY <1>6 DEF Verify, LeaseBounds, Claims
  <2>5. MutualExclusion'
    BY <1>6 DEF Verify, LeaseBounds, MutualExclusion
  <2> QED BY <2>1, <2>2, <2>3, <2>4, <2>5
<1>7. ASSUME NEW r \in Proc, Resend(r) PROVE LockInv'
  <2>1. Reachable'
    BY <1>7 DEF Resend, Reachable
  <2>2. FreshKeys'
    BY <1>7 DEF Resend, Reachable, FreshKeys
  <2>3. EndTimeBounds'
    BY <1>7 DEF Resend, Reachable, EndTimeBounds, LeaseBounds, Disciplined
  <2>4. LeaseBounds'
    BY <1>7 DEF Resend, Reachable, LeaseBounds, Claims
  <2>5. MutualExclusion'
    BY <1>7 DEF Resend, MutualExclusion
  <2> QED BY <2>1, <2>2, <2>3, <2>4, <2>5
<1>8. ASSUME NEW r \in Faulty, CallFails(r) \/ Crash(r) PROVE LockInv'
  <2>1. Reachable'
    BY <1>8 DEF CallFails, Crash, Reachable
  <2>2. FreshKeys'
    BY <1>8 DEF CallFails, Crash, FreshKeys
  <2>3. EndTimeBounds'
    BY <1>8 DEF CallFails, Crash, EndTimeBounds
  <2>4. LeaseBounds'
    BY <1>8 DEF CallFails, Crash, LeaseBounds, Claims
  <2>5. MutualExclusion'
    BY <1>8 DEF CallFails, Crash, MutualExclusion
  <2> QED BY <2>1, <2>2, <2>3, <2>4, <2>5
<1>9. CASE Tick
  <2>1. Reachable'
    BY <1>9 DEF Tick, WriteCalls, Reachable
  <2>2. FreshKeys'
    BY <1>9 DEF Tick, WriteCalls, FreshKeys
  <2>3. EndTimeBounds'
    BY <1>9 DEF Tick, WriteCalls, EndTimeBounds
  <2>4. LeaseBounds'
    BY <1>9 DEF Tick, WriteCalls, LeaseBounds, Claims
  <2>5. MutualExclusion'
    BY <1>9 DEF Tick, WriteCalls, MutualExclusion
  <2> QED BY <2>1, <2>2, <2>3, <2>4, <2>5
<1>10. ASSUME NEW r \in Proc, LockStep(r) PROVE LockInv'
  BY <1>1, <1>2, <1>3, <1>4, <1>5, <1>6, <1>10
  DEF LockStep, TruncOwner, TruncEnd, DelOwner, DelEnd, Disciplined, Reachable
<1>11. CASE UNCHANGED vars
  BY <1>11
  DEF vars, Reachable, FreshKeys, EndTimeBounds, LeaseBounds, Claims, MutualExclusion
<1> QED
  BY <1>7, <1>8, <1>9, <1>10, <1>11 DEF Next, Disciplined

THEOREM InvCorrect ==
  ASSUME Disciplined
  PROVE  Spec => [](TypeOK /\ LockInv)
<1>1. Init => LockInv
  BY ConstantsAssumption
  DEF Init, LockInv, Reachable, FreshKeys, EndTimeBounds, LeaseBounds, Claims, MutualExclusion
<1>2. TypeOK /\ LockInv /\ [Next]_vars => LockInv'
  BY LockInvStep
<1> QED
  BY <1>1, <1>2, TypeCorrect, PTL DEF Spec

\* When the writes of lock() take effect sooner than its sleep, callers ask
\* for one duration and nobody unlocks, lock() never returns True to a process
\* while another one still has the lock - for any number of processes, any
\* pattern of crashes, failing calls and resent writes.
THEOREM MutexCorrect ==
  ASSUME Disciplined
  PROVE  Spec => []MutualExclusion
BY InvCorrect, PTL DEF LockInv

-----------------------------------------------------------------------------
\* Under the same discipline lock() implements the abstract lease lock: each
\* step of ConfLock grants, drops or ages leases as LeaseLock allows, or
\* leaves them alone.
THEOREM LeaseLockCorrect ==
  ASSUME Disciplined
  PROVE  Spec => LeaseLockSpec
<1>1. Init => LL!Init
  BY DEF Init, LL!Init
<1>2. ASSUME TypeOK, LockInv, [Next]_vars
      PROVE  [LL!Next]_lease
  <2> USE ConstantsAssumption DEF TypeOK, Disciplined
  <2>1. ASSUME NEW r \in Proc, Verify(r) PROVE [LL!Next]_lease
    <3>1. CASE owner = r
      <4>1. \A q \in Proc : q # r => lease[q] <= timer[r]
        BY <2>1, <3>1, <1>2 DEF Verify, LockInv, LeaseBounds
      <4>2. \A q \in Proc \ {r} : lease[q] = 0
        BY <2>1, <4>1, <1>2 DEF Verify
      <4>3. lease' = [lease EXCEPT ![r] = stamp[r]] /\ stamp[r] \in Nat
        BY <2>1, <3>1, <1>2 DEF Verify
      <4>4. LL!Acquire(r)
        BY <1>2, <4>2, <4>3 DEF LL!Acquire
      <4> QED
        BY <4>4 DEF LL!Next
    <3>2. CASE owner # r
      BY <2>1, <3>2 DEF Verify
    <3> QED
      BY <3>1, <3>2
  <2>2. ASSUME NEW r \in Proc, LockStep(r) PROVE [LL!Next]_lease
    BY <2>1, <2>2 DEF LockStep, Lock, TestEnd, SetOwner, TruncOwner, Stamp,
                      SetEnd, TruncEnd, DelOwner, DelEnd
  <2>3. ASSUME NEW r \in Faulty, Crash(r) PROVE [LL!Next]_lease
    BY <2>3 DEF Crash, LL!Next, LL!Release
  <2>4. CASE Tick
    BY <2>4 DEF Tick, LL!Next, LL!Tick
  <2>5. CASE UNCHANGED vars
    BY <2>5 DEF vars
  <2> QED
    BY <1>2, <2>2, <2>3, <2>4, <2>5 DEF Next, Resend, CallFails
<1> QED
  BY <1>1, <1>2, InvCorrect, PTL DEF Spec, LeaseLockSpec, LL!Spec
=============================================================================

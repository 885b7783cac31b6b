-------------------------- MODULE TopicAdminProofs --------------------------
(***************************************************************************)
(* Type correctness of TopicAdmin; that with one thread per process and    *)
(* producers of registered types only, every delete() sets the retention   *)
(* it lowered back as long as nothing fails; and that whatever failed, a   *)
(* delete() that returns leaves a usable retention.                        *)
(***************************************************************************)
EXTENDS TopicAdmin, TLAPS

\* Kafka's state, the broker objects and the calls under way stay well formed
\* in every step of the administration calls: partition counts within bounds,
\* retentions and saved retentions numbers or unset.
THEOREM TypeCorrect == Spec => []TypeOK
<1> USE ConstantsAssumption DEF Min, Idle, Polls, Alters, kafka, broker
<1>1. Init => TypeOK
  BY DEF Init, TypeOK
<1>2. TypeOK /\ [Next]_vars => TypeOK'
  <2> SUFFICES ASSUME TypeOK, [Next]_vars PROVE TypeOK'
    OBVIOUS
  <2> USE DEF TypeOK, Enter, Return
  <2>0. faults' \in 0..MaxFaults
    BY DEF Next, vars, RequestFails, Crash, InitProducer
  <2> USE <2>0
  <2>1. ASSUME NEW th \in Thread, NEW t \in Topic, NEW id \in ClientId,
               NEW answered \in BOOLEAN, InitProducer(th, id, t, answered)
        PROVE  TypeOK'
    <3>1. CASE answered
      <4>1. /\ retention[t] \in Nat /\ Retained(retention[t]) \in Nat
            /\ UNCHANGED <<kafka, call>>
        BY <2>1, <3>1 DEF InitProducer, Retained
      <4>2. resource' \in [Process -> Topic \cup {None}] /\ saved' \in [Process -> Nat \cup {None}]
        BY <2>1, <3>1, <4>1 DEF InitProducer
      <4>3. producers' \in [Process -> SUBSET ClientId] /\ held' \in [Process -> SUBSET Topic]
        BY <2>1, <3>1 DEF InitProducer
      <4> QED
        BY <4>1, <4>2, <4>3
    <3>2. CASE ~answered
      BY <2>1, <3>2 DEF InitProducer
    <3> QED
      BY <3>1, <3>2
  <2>2. ASSUME NEW th \in Thread, NEW t \in Topic, ReuseProducer(th, t)
        PROVE  TypeOK'
    BY <2>2 DEF ReuseProducer
  <2>3. ASSUME NEW th \in Thread, NEW t \in Topic, NEW n \in 1..MaxParts,
               Register(th, t, n) \/ AddConcurrency(th, t, n)
        PROVE  TypeOK'
    <3>1. CASE Register(th, t, n)
      BY <3>1 DEF Register
    <3>2. CASE AddConcurrency(th, t, n)
      BY <3>2 DEF AddConcurrency
    <3> QED
      BY <2>3, <3>1, <3>2
  <2>4. ASSUME NEW th \in Thread, NEW t \in Topic, Deregister(th, t)
        PROVE  TypeOK'
    BY <2>4 DEF Deregister
  <2>5. ASSUME NEW th \in Thread, NEW t \in Topic, NEW r \in Expiries,
               SetExpire(th, t, r)
        PROVE  TypeOK'
    BY <2>5 DEF SetExpire
  <2>6. ASSUME NEW th \in Thread, NEW t \in Topic, DeleteMessages(th, t)
        PROVE  TypeOK'
    BY <2>6 DEF DeleteMessages
  <2>7. ASSUME NEW th \in Thread, Poll(th)
        PROVE  TypeOK'
    BY <2>7 DEF Poll, Retry
  <2>8. ASSUME NEW th \in Thread, Expire(th)
        PROVE  TypeOK'
    <3>1. call[th].n \in Nat
      OBVIOUS
    <3>2. retention' \in [Topic -> Nat \cup {None}]
      BY <2>8, <3>1 DEF Expire, Alter
    <3>4. call' = [call EXCEPT ![th] = Idle]
      BY <2>8 DEF Expire, Alter
    <3>5. UNCHANGED <<parts, shown, broker>>
      BY <2>8 DEF Expire
    <3> QED
      BY <3>2, <3>4, <3>5
  <2>9. ASSUME NEW th \in Thread, Shrink(th)
        PROVE  TypeOK'
    <3>1. retention' \in [Topic -> Nat \cup {None}]
      BY <2>9 DEF Shrink, Alter
    <3>2. \/ call' = [call EXCEPT ![th] = Idle]
          \/ call' = [call EXCEPT ![th] = 
               [op |-> "restore", topic |-> call[th].topic, n |-> 0, tries |-> 0]]
      BY <2>9 DEF Shrink, Alter
    <3>3a. call[th].topic \in Topic \cup {None}
      OBVIOUS
    <3>3. call' \in [Thread -> [op : {"idle"} \cup Polls \cup Alters,
                                topic : Topic \cup {None}, n : Nat, tries : Nat]]
      BY <3>2, <3>3a
    <3>4. UNCHANGED <<parts, shown, broker>>
      BY <2>9 DEF Shrink
    <3> QED
      BY <3>1, <3>3, <3>4
  <2>10. ASSUME NEW th \in Thread, Restore(th)
         PROVE  TypeOK'
    <3>1. saved[Home[th]] \in Nat \cup {None}
      OBVIOUS
    <3>2. retention' \in [Topic -> Nat \cup {None}]
      BY <2>10, <3>1 DEF Restore, Alter
    <3>3. call' = [call EXCEPT ![th] = Idle]
      BY <2>10 DEF Restore, Alter
    <3>4. UNCHANGED <<parts, shown, broker>>
      BY <2>10 DEF Restore
    <3> QED
      BY <3>2, <3>3, <3>4
  <2>11. ASSUME NEW th \in Thread, RequestFails(th)
         PROVE  TypeOK'
    <3>1. \/ call' = [call EXCEPT ![th] = Idle]
          \/ call' = [call EXCEPT ![th].tries = @ + 1]
      BY <2>11 DEF RequestFails, Retry
    <3>2. call' \in [Thread -> [op : {"idle"} \cup Polls \cup Alters,
                                topic : Topic \cup {None}, n : Nat, tries : Nat]]
      <4>1. CASE call' = [call EXCEPT ![th] = Idle]
        BY <4>1
      <4>2. CASE call' = [call EXCEPT ![th].tries = @ + 1]
        <5>1. [call[th] EXCEPT !.tries = @ + 1] \in
                [op : {"idle"} \cup Polls \cup Alters,
                 topic : Topic \cup {None}, n : Nat, tries : Nat]
          OBVIOUS
        <5> QED
          BY <4>2, <5>1
      <4> QED
        BY <3>1, <4>1, <4>2
    <3>3. UNCHANGED <<kafka, broker>>
      BY <2>11 DEF RequestFails
    <3> QED
      BY <3>2, <3>3
  <2>12. ASSUME NEW t \in Topic, Show(t)
         PROVE  TypeOK'
    BY <2>12 DEF Show
  <2>13. ASSUME NEW pr \in Process, Crash(pr)
         PROVE  TypeOK'
    BY <2>13 DEF Crash
  <2>14. CASE UNCHANGED vars
    BY <2>14 DEF vars
  <2> QED
    BY <2>1, <2>2, <2>3, <2>4, <2>5, <2>6, <2>7, <2>8, <2>9, <2>10, <2>11,
       <2>12, <2>13, <2>14 DEF Next, Call
<1> QED
  BY <1>1, <1>2, PTL DEF Spec

-----------------------------------------------------------------------------
(* Every delete() sets the retention back.                                 *)

\* A step that leaves every call where it is, or takes it out of the halves of
\* delete() and the expiry calls, keeps CallsAreSound.
LEMMA CallsKeep ==
  ASSUME CallsAreSound, UNCHANGED resource,
         \A b \in Thread : call'[b] = call[b] \/ call'[b].op \notin Alters
  PROVE  CallsAreSound'
BY DEF CallsAreSound, Alters

\* The same step, and one that lowers no retention, keeps RestoredAfterDelete
\* when it ends no restoring half of a delete().
LEMMA RestoringKeep ==
  ASSUME RestoredAfterDelete, UNCHANGED resource,
         \A t \in Topic : retention'[t] = retention[t] \/ retention'[t] # Min,
         \A b \in Thread : call[b].op = "restore" => call'[b] = call[b],
         faults' = 0 => faults = 0
  PROVE  RestoredAfterDelete'
BY DEF RestoredAfterDelete

\* The steps of Orderly behaviours keep RestoreInv.
LEMMA RestoreInvStep ==
  ASSUME Orderly, TypeOK, RestoreInv, [Next]_vars PROVE RestoreInv'
<1> USE ConstantsAssumption DEF Min, Idle, Alters, kafka, broker, TypeOK, Enter,
      Return, RestoreInv, RestoredAfterDelete, SavedIsUsable, CallsAreSound, Orderly
<1>0. faults' = 0 => faults = 0
  BY DEF Next, vars, RequestFails, Crash, InitProducer
<1> USE <1>0
<1>1. ASSUME NEW th \in Thread, NEW t \in Topic, NEW id \in ClientId,
             NEW answered \in BOOLEAN, InitProducer(th, id, t, answered)
      PROVE  RestoreInv'
  <2>1. \A b \in Thread : call[b].op # "idle" => resource'[Home[b]] = resource[Home[b]]
    BY <1>1 DEF InitProducer
  <2>2. SavedIsUsable'
    BY <1>1 DEF InitProducer, Retained
  <2> QED
    BY <1>1, <2>1, <2>2 DEF InitProducer
<1>2. ASSUME NEW th \in Thread, NEW t \in Topic, ReuseProducer(th, t)
      PROVE  RestoreInv'
  <2>1. SavedIsUsable'
    <3>1. producers[Home[th]] # {} /\ UNCHANGED <<producers, resource, saved>>
      BY <1>2 DEF ReuseProducer
    <3>2. \A pr \in Process : held'[pr] # {} => producers[pr] # {}
      BY <1>2, <3>1 DEF ReuseProducer
    <3> QED
      BY <3>1, <3>2
  <2> QED
    BY <1>2, <2>1 DEF ReuseProducer
<1>3. ASSUME NEW th \in Thread, NEW t \in Topic, NEW n \in 1..MaxParts,
             Register(th, t, n)
      PROVE  RestoreInv'
  BY <1>3 DEF Register
<1>4. ASSUME NEW th \in Thread, NEW t \in Topic, NEW n \in 1..MaxParts,
             AddConcurrency(th, t, n)
      PROVE  RestoreInv'
  BY <1>4 DEF AddConcurrency
<1>5. ASSUME NEW th \in Thread, NEW t \in Topic, Deregister(th, t)
      PROVE  RestoreInv'
  BY <1>5 DEF Deregister
<1>6. ASSUME NEW th \in Thread, NEW t \in Topic, NEW r \in Expiries, SetExpire(th, t, r)
      PROVE  RestoreInv'
  BY <1>6 DEF SetExpire
<1>7. ASSUME NEW th \in Thread, NEW t \in Topic, DeleteMessages(th, t)
      PROVE  RestoreInv'
  BY <1>7 DEF DeleteMessages
<1>8. ASSUME NEW th \in Thread, Poll(th)
      PROVE  RestoreInv'
  <2>1. call[th].op \in Polls /\ call'[th].op \notin Alters
    BY <1>8 DEF Poll, Retry, Polls
  <2>1a. \A b \in Thread : b # th => call'[b] = call[b]
    BY <1>8 DEF Poll, Retry
  <2>2. UNCHANGED <<kafka, broker>>
    BY <1>8 DEF Poll
  <2>3. SavedIsUsable'
    BY <2>2
  <2>4. CallsAreSound'
    BY <2>1, <2>1a, <2>2, CallsKeep
  <2>5. RestoredAfterDelete'
    BY <2>1, <2>1a, <2>2, RestoringKeep DEF Polls
  <2> QED
    BY <2>3, <2>4, <2>5
<1>9. ASSUME NEW th \in Thread, Expire(th)
      PROVE  RestoreInv'
  <2>1. \A b \in Thread : b # th => call'[b] = call[b]
    BY <1>9 DEF Expire, Alter
  <2>2. call'[th] = Idle /\ call[th].n # Min /\ call[th].op = "expire"
    BY <1>9 DEF Expire, Alter
  <2>3. UNCHANGED broker
    BY <1>9 DEF Expire
  <2>4. \A t \in Topic : retention'[t] = retention[t] \/ retention'[t] = call[th].n
    BY <1>9 DEF Expire, Alter
  <2>5. SavedIsUsable'
    BY <2>3
  <2>6. CallsAreSound'
    BY <2>1, <2>2, <2>3
  <2>7. \A t \in Topic : retention'[t] = retention[t] \/ retention'[t] # Min
    BY <2>2, <2>4
  <2>8. \A b \in Thread : call[b].op = "restore" => call'[b] = call[b]
    BY <2>1, <2>2
  <2>9. RestoredAfterDelete'
    BY <2>3, <2>7, <2>8, RestoringKeep
  <2> QED
    BY <2>5, <2>6, <2>9
<1>10. ASSUME NEW th \in Thread, Shrink(th)
       PROVE  RestoreInv'
  <2> DEFINE R == resource[Home[th]]
  <2>1. R \in Topic /\ UNCHANGED broker
    BY <1>10 DEF Shrink
  <2>2. \A b \in Thread : b # th => call'[b] = call[b]
    BY <1>10 DEF Shrink, Alter
  <2>3. CASE retention[R] = None
    <3>1. UNCHANGED retention /\ call'[th].op = "idle" /\ call[th].op = "shrink"
      BY <1>10, <2>3 DEF Shrink, Alter
    <3>2. SavedIsUsable' /\ CallsAreSound'
      BY <2>1, <2>2, <3>1, CallsKeep
    <3>3. RestoredAfterDelete'
      BY <2>1, <2>2, <3>1
    <3> QED
      BY <3>2, <3>3
  <2>4. CASE retention[R] # None
    <3> HIDE DEF R
    <3>0. call' = [call EXCEPT ![th] = 
               [op |-> "restore", topic |-> call[th].topic, n |-> 0, tries |-> 0]]
      BY <1>10, <2>4 DEF Shrink, Alter, R
    <3>1. call'[th].op = "restore"
      BY <3>0
    <3>2. \A t \in Topic \ {R} : retention'[t] = retention[t]
      BY <1>10, <2>4 DEF Shrink, Alter, R
    <3>3. call[th].op = "shrink"
      BY <1>10 DEF Shrink
    <3>4. SavedIsUsable' /\ CallsAreSound'
      BY <2>1, <2>2, <3>1, <3>3 DEF R
    <3>5. RestoredAfterDelete'
      BY <2>1, <2>2, <3>1, <3>2, <3>3 DEF R
    <3> QED
      BY <3>4, <3>5
  <2> QED
    BY <2>3, <2>4
<1>11. ASSUME NEW th \in Thread, Restore(th)
       PROVE  RestoreInv'
  <2> DEFINE R == resource[Home[th]]
  <2>1. R \in Topic /\ saved[Home[th]] # Min /\ UNCHANGED broker
    BY <1>11 DEF Restore
  <2>2. /\ \A b \in Thread : b # th => call'[b] = call[b]
        /\ call'[th].op = "idle" /\ call[th].op = "restore"
    BY <1>11 DEF Restore, Alter
  <2>3. SavedIsUsable'
    BY <2>1
  <2>4. CallsAreSound'
    BY <2>1, <2>2, CallsKeep
  <2>5. ASSUME faults' = 0 PROVE RestoredAfterDelete'
    <3>1. saved[Home[th]] # None
      BY <2>1, <2>5
    <3>2. retention'[R] # Min
      BY <1>11, <2>1, <3>1 DEF Restore, Alter
    <3>3. \A t \in Topic \ {R} : retention'[t] = retention[t]
      BY <1>11, <2>1, <3>1 DEF Restore, Alter
    <3> QED
      BY <2>1, <2>2, <3>2, <3>3
  <2> QED
    BY <2>3, <2>4, <2>5
<1>12. ASSUME NEW t \in Topic, Show(t)
       PROVE  RestoreInv'
  BY <1>12 DEF Show
<1>13. ASSUME NEW th \in Thread, RequestFails(th)
       PROVE  RestoreInv'
  <2>1. faults' # 0 /\ UNCHANGED <<kafka, broker>>
    BY <1>13 DEF RequestFails
  <2>2. /\ \A b \in Thread : b # th => call'[b] = call[b]
        /\ call'[th].op = "idle" \/ call'[th] = [call[th] EXCEPT !.tries = @ + 1]
    BY <1>13 DEF RequestFails, Retry
  <2>3. CallsAreSound'
    BY <2>1, <2>2
  <2> QED
    BY <2>1, <2>3
<1>14. ASSUME NEW pr \in Process, Crash(pr)
       PROVE  RestoreInv'
  <2>1. faults' # 0
    BY <1>14 DEF Crash
  <2>2. SavedIsUsable'
    BY <1>14 DEF Crash
  <2>3. CallsAreSound'
    BY <1>14 DEF Crash
  <2> QED
    BY <2>1, <2>2, <2>3
<1>15. CASE UNCHANGED vars
  BY <1>15 DEF vars
<1> HIDE DEF Min, Idle, Alters, kafka, broker, TypeOK, Enter, Return, RestoreInv
<1> QED
  BY <1>1, <1>2, <1>3, <1>4, <1>5, <1>6, <1>7, <1>8, <1>9, <1>10, <1>11, <1>12,
     <1>13, <1>14, <1>15 DEF Next, Call

\* However many processes administer however many message types, a topic is at
\* the retention at which Kafka drops its messages only while the delete() that
\* will restore it is in its sleep.
THEOREM RestoreCorrect == ASSUME Orderly PROVE Spec => []RestoredAfterDelete
<1>1. Init => RestoreInv
  BY ConstantsAssumption DEF Init, RestoreInv, RestoredAfterDelete, SavedIsUsable,
     CallsAreSound, Idle, Min
<1>2. TypeOK /\ RestoreInv /\ [Next]_vars => RestoreInv'
  BY Orderly, RestoreInvStep
<1>3. RestoreInv => RestoredAfterDelete
  BY DEF RestoreInv
<1> QED
  BY <1>1, <1>2, <1>3, TypeCorrect, PTL DEF Spec

\* Whatever requests failed and processes died before, describe_configs() of a
\* producer included: a delete() that returns leaves no message type at the minimum
\* that was not left there by another one, and never its own.
THEOREM EndsCorrect == ASSUME Orderly PROVE Spec => EndsRestored
<1>1. Init => RestoreInv
  BY ConstantsAssumption DEF Init, RestoreInv, RestoredAfterDelete, SavedIsUsable,
     CallsAreSound, Idle, Min
<1>2. TypeOK /\ RestoreInv /\ [Next]_vars => RestoreInv'
  BY Orderly, RestoreInvStep
<1>3. ASSUME TypeOK, RestoreInv, NEW th \in Thread, Restore(th), saved[Home[th]] # None,
             NEW t \in Topic, retention'[t] = Min
      PROVE  retention[t] = Min /\ t # resource[Home[th]]
  <2> DEFINE R == resource[Home[th]]
  <2> USE ConstantsAssumption DEF TypeOK
  <2>1. R \in Topic /\ saved[Home[th]] # Min
    BY <1>3 DEF Restore, RestoreInv, SavedIsUsable, CallsAreSound
  <2>2. retention'[R] # Min
    BY <1>3, <2>1 DEF Restore, Alter, Min
  <2>3. \A x \in Topic \ {R} : retention'[x] = retention[x]
    BY <1>3, <2>1 DEF Restore, Alter
  <2> QED
    BY <1>3, <2>2, <2>3
<1>4. TypeOK /\ RestoreInv /\ [Next]_vars =>
        [\A th \in Thread : Restore(th) /\ saved[Home[th]] # None =>
           \A t \in Topic :
             retention'[t] = Min => retention[t] = Min /\ t # resource[Home[th]]]_vars
  BY <1>3
<1> QED
  BY <1>1, <1>2, <1>4, TypeCorrect, PTL DEF Spec, EndsRestored
=============================================================================

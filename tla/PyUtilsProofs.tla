--------------------------- MODULE PyUtilsProofs ---------------------------
(***************************************************************************)
(* The safety properties of the utilities of py-utils that PyUtils puts    *)
(* side by side, for every value of their parameters.  Each part has a     *)
(* section: the steps of its module keep its inductive invariant, the      *)
(* steps of the other parts do not touch its variables, and the invariant  *)
(* implies the property.                                                   *)
(***************************************************************************)
EXTENDS PyUtils, FiniteSetTheorems, SequenceTheorems, TLAPS

-----------------------------------------------------------------------------
(* The activity tracker.                                                   *)

\* The steps of a process are told apart by their names.
LEMMA ActivityCalls ==
  /\ Activities!Idle.step = "idle"
  /\ \A c \in Activities!Loading : c.step = "load" /\ c # Activities!Idle
  /\ \A c \in Activities!Dumping :
       /\ c.step \in {"open", "write"} /\ c # Activities!Idle
       /\ c.payload \in Activities!Payloads /\ c.payload # None
<1>1. Activities!Idle.step = "idle"
  BY DEF Activities!Idle
<1>2. \A c \in Activities!Loading : c.step = "load"
  BY DEF Activities!Loading
<1>3. \A c \in Activities!Dumping : c.step \in {"open", "write"} /\ c.payload \in Activities!Payloads
  BY DEF Activities!Dumping
<1>4. \A c \in Activities!Dumping : c.payload # None
  BY <1>3, ActivityAssumption
<1> QED
  BY <1>1, <1>2, <1>3, <1>4

\* What is written in place of an entry follows it.
LEMMA FollowsFacts ==
  ASSUME NEW new \in Activities!Entries
  PROVE  Activities!Follows(new, new) /\ Activities!Follows(new, None)
BY ActivityAssumption DEF Activities!Follows, Activities!Entries

LEMMA FollowsTransitive ==
  ASSUME NEW new \in Activities!Entries, NEW mid \in Activities!Entries,
         NEW old \in Activities!Entries,
         Activities!Follows(new, mid), Activities!Follows(mid, old)
  PROVE  Activities!Follows(new, old)
<1>1. new # None /\ mid # None /\ new.pct \in Int /\ mid.pct \in Int /\ old.pct \in Int
  BY ActivityAssumption DEF Activities!Entries
<1> QED
  BY <1>1 DEF Activities!Follows, Activities!IsComplete

\* The contents, one by one.
LEMMA ActivityContents ==
  ASSUME Activities!TypeOK
  PROVE  /\ stored \in Activities!Contents
         /\ \A p \in Process : actCall[p] \in Activities!Dumping =>
              actCall[p].payload \in Activities!Contents
         /\ \A f \in Activities!Contents : f \in Activities!Payloads
<1>1. stored \in Activities!Payloads
  BY DEF Activities!TypeOK
<1> QED
  BY <1>1, ActivityCalls DEF Activities!Contents

\* A step of p that writes nothing: p is left with no handle or with one that fits what
\* is there, and with no call, the same one, or a new one.
LEMMA ActivityKept ==
  ASSUME Activities!ActivityInv, Activities!TypeOK', NEW p \in Process,
         \A q \in Process \ {p} : handle'[q] = handle[q] /\ actCall'[q] = actCall[q],
         Activities!Contents' \subseteq Activities!Contents,
         actFile' # None => actFile' = stored',
         sets' \in {sets, sets + 1},
         handle'[p] # None =>
           /\ handle'[p].entry.version \in 0..sets
           /\ \A q \in Process : actCall[q] # Activities!Idle =>
                actCall[q].number # handle'[p].entry.version
           /\ \A f \in Activities!Contents :
                f[handle'[p].id] # None /\ f[handle'[p].id].version = handle'[p].entry.version =>
                  Activities!Follows(handle'[p].entry, f[handle'[p].id]),
         actCall'[p] # Activities!Idle =>
           \/ actCall[p] # Activities!Idle /\ actCall'[p].number = actCall[p].number
           \/ actCall'[p].number = sets + 1 /\ sets' = sets + 1
  PROVE  Activities!ActivityInv'
<1>t. Activities!TypeOK /\ sets \in Nat
  BY DEF Activities!ActivityInv, Activities!TypeOK
<1> DEFINE C == Activities!Contents
           VersionsIn(f) == \A a \in ActivityId : f[a] # None => f[a].version \in 1..sets
<1>1. /\ \A f \in C : Activities!HandlesFit(f) /\ \A g \in C : Activities!SameEntry(f, g)
      /\ \A f \in C : VersionsIn(f)
      /\ \A q \in Process : handle[q] # None => handle[q].entry.version <= sets
      /\ \A q \in Process : actCall[q] # Activities!Idle =>
           /\ Activities!Fresh(actCall[q].number)
           /\ \A r \in Process \ {q} : actCall[r].number # actCall[q].number
  BY DEF Activities!ActivityInv
<1>2. \A f \in C : Activities!HandlesFit(f)'
  BY <1>1 DEF Activities!HandlesFit
<1>3. \A f \in C, a \in ActivityId : f[a] # None => f[a].version \in 1..sets'
  <2> SUFFICES ASSUME NEW f \in C, NEW a \in ActivityId, f[a] # None
               PROVE  f[a].version \in 1..sets'
    OBVIOUS
  <2>1. f[a].version \in 1..sets
    BY <1>1
  <2> HIDE DEF C
  <2> QED
    BY <1>t, <2>1
<1>4. \A q \in Process : handle'[q] # None => handle'[q].entry.version <= sets'
  <2> SUFFICES ASSUME NEW q \in Process, handle'[q] # None PROVE handle'[q].entry.version <= sets'
    OBVIOUS
  <2>1. handle'[q].entry.version <= sets
    BY <1>1, <1>t
  <2>2. handle'[q].entry.version \in Nat
    BY DEF Activities!TypeOK, Activities!Handles, Activities!Entries
  <2> QED
    BY <1>t, <2>1, <2>2
<1>5. ASSUME NEW n \in 1..sets, Activities!Fresh(n), handle'[p] # None => handle'[p].entry.version # n
      PROVE  Activities!Fresh(n)'
  <2>1. n \in 1..sets'
    BY <1>t, <1>5
  <2>2. \A f \in Activities!Contents', a \in ActivityId : f[a] # None => f[a].version # n
    BY <1>5 DEF Activities!Fresh
  <2>3. ASSUME NEW q \in Process, handle'[q] # None PROVE handle'[q].entry.version # n
    BY <1>5, <2>3 DEF Activities!Fresh
  <2> QED
    BY <2>1, <2>2, <2>3 DEF Activities!Fresh
<1>6. ASSUME NEW n, n = sets + 1, sets' = sets + 1 PROVE Activities!Fresh(n)'
  <2>1. n \in 1..sets'
    BY <1>t, <1>6
  <2>2. \A f \in Activities!Contents', a \in ActivityId : f[a] # None => f[a].version # n
    <3> SUFFICES ASSUME NEW f \in Activities!Contents', NEW a \in ActivityId, f[a] # None
                 PROVE  f[a].version # n
      OBVIOUS
    <3>1. f[a].version \in 1..sets
      BY <1>1
    <3> HIDE DEF C
    <3> QED
      BY <1>t, <1>6, <3>1
  <2>3. ASSUME NEW q \in Process, handle'[q] # None PROVE handle'[q].entry.version # n
    <3>1. handle'[q].entry.version <= sets
      BY <1>1, <1>t, <2>3
    <3>2. handle'[q].entry.version \in Nat
      BY <2>3 DEF Activities!TypeOK, Activities!Handles, Activities!Entries
    <3> QED
      BY <1>t, <1>6, <3>1, <3>2
  <2> QED
    BY <2>1, <2>2, <2>3 DEF Activities!Fresh
<1>7. ASSUME NEW q \in Process, actCall'[q] # Activities!Idle, NEW n, n = actCall'[q].number
      PROVE  Activities!Fresh(n)' /\ \A r \in Process \ {q} : actCall'[r].number # n
  <2>i. Activities!Idle.number = 0
    BY DEF Activities!Idle
  <2>n. ASSUME NEW r \in Process PROVE actCall[r].number \in 0..sets
    <3>1. CASE actCall[r] = Activities!Idle
      BY <1>t, <2>i, <3>1
    <3>2. CASE actCall[r] # Activities!Idle
      BY <1>1, <1>t, <3>2 DEF Activities!Fresh
    <3> QED
      BY <3>1, <3>2
  <2>1. CASE actCall[q] # Activities!Idle /\ actCall[q].number = n
    <3>1. Activities!Fresh(n) /\ n \in 1..sets
      BY <1>1, <2>1 DEF Activities!Fresh
    <3>2. Activities!Fresh(n)'
      BY <1>5, <1>7, <1>1, <2>1, <3>1 DEF Activities!Fresh
    <3>3. ASSUME NEW r \in Process \ {q} PROVE actCall'[r].number # n
      <4>1. actCall[r].number # n
        BY <1>1, <2>1
      <4>2. CASE r # p
        BY <4>1, <4>2
      <4>3. CASE r = p /\ actCall'[p] = Activities!Idle
        BY <1>t, <2>i, <3>1, <4>3
      <4>4. CASE r = p /\ actCall'[p] # Activities!Idle
        BY <1>t, <3>1, <4>1, <4>4
      <4> QED
        BY <4>2, <4>3, <4>4
    <3> QED
      BY <3>2, <3>3
  <2>2. CASE q = p /\ n = sets + 1 /\ sets' = sets + 1
    <3>1. ASSUME NEW r \in Process \ {q} PROVE actCall'[r].number # n
      BY <1>t, <2>2, <2>n, <3>1
    <3> QED
      BY <1>6, <2>2, <3>1
  <2> QED
    BY <1>7, <2>1, <2>2
<1> HIDE DEF C
<1>8. \A f \in Activities!Contents' : \A g \in Activities!Contents' : Activities!SameEntry(f, g)
  BY <1>1 DEF C
<1>9. \A f \in Activities!Contents' : Activities!HandlesFit(f)'
  BY <1>2 DEF C
<1>10. \A f \in Activities!Contents', a \in ActivityId : f[a] # None => f[a].version \in 1..sets'
  BY <1>3 DEF C
<1>11. ASSUME NEW q \in Process, actCall'[q] # Activities!Idle
       PROVE  /\ Activities!Fresh(actCall[q].number)'
              /\ \A r \in Process \ {q} : actCall'[r].number # actCall'[q].number
  <2>1. PICK n : n = actCall'[q].number
    OBVIOUS
  <2>2. Activities!Fresh(n)' /\ \A r \in Process \ {q} : actCall'[r].number # n
    BY <1>7, <1>11, <2>1
  <2> QED
    BY <2>1, <2>2 DEF Activities!Fresh
<1>12. actFile' # None => actFile' = stored'
  OBVIOUS
<1> QED
  BY <1>4, <1>8, <1>9, <1>10, <1>11, <1>12 DEF Activities!ActivityInv, Activities!Empty

\* An operation of the process p enters KvStore.set() with entry e of activity a.
LEMMA ActivityBegin ==
  ASSUME Activities!ActivityInv, NEW p \in Process, NEW a \in ActivityId,
         NEW e \in Activities!Entries, actCall[p] = Activities!Idle, Activities!BeginSet(p, a, e),
         e.version \in 0..sets,
         \A q \in Process : actCall[q] # Activities!Idle => actCall[q].number # e.version,
         \A f \in Activities!Contents :
           f[a] # None /\ f[a].version = e.version => Activities!Follows(e, f[a])
  PROVE  Activities!ActivityInv'
<1>t. Activities!TypeOK /\ (actFile # None => actFile = stored)
  BY DEF Activities!ActivityInv, Activities!Empty
<1> DEFINE h == [id |-> a, entry |-> e]
           c == [step |-> "load", number |-> sets + 1, payload |-> None]
<1>1. /\ UNCHANGED <<actFile, stored>> /\ sets' = sets + 1
      /\ handle' = [handle EXCEPT ![p] = h] /\ actCall' = [actCall EXCEPT ![p] = c]
  BY DEF Activities!BeginSet
<1>2. c \in Activities!Loading /\ c # Activities!Idle /\ c.number = sets + 1 /\ c \notin Activities!Dumping
  BY <1>t, ActivityCalls DEF Activities!Loading, Activities!TypeOK
<1>3. h \in Activities!Handles /\ h.id = a /\ h.entry = e /\ h # None
  BY ActivityAssumption DEF Activities!Handles
<1> HIDE DEF h, c
<1>4. handle'[p] = h /\ actCall'[p] = c
      /\ \A q \in Process \ {p} : handle'[q] = handle[q] /\ actCall'[q] = actCall[q]
  BY <1>t, <1>1 DEF Activities!TypeOK
<1>5. Activities!TypeOK'
  <2>1. handle' \in [Process -> Activities!Handles \cup {None}]
    BY <1>t, <1>1, <1>3 DEF Activities!TypeOK
  <2>2. actCall' \in [Process -> Activities!Loading \cup Activities!Dumping \cup {Activities!Idle}]
    BY <1>t, <1>1, <1>2 DEF Activities!TypeOK
  <2>3. \A q \in Process : actCall'[q] # Activities!Idle => handle'[q] # None
    BY <1>t, <1>3, <1>4 DEF Activities!TypeOK
  <2> QED
    BY <1>t, <1>1, <2>1, <2>2, <2>3 DEF Activities!TypeOK
<1>6. Activities!Contents' \subseteq Activities!Contents
  BY <1>1, <1>2, <1>4 DEF Activities!Contents
<1> QED
  BY <1>t, <1>1, <1>2, <1>3, <1>4, <1>5, <1>6, ActivityKept

\* The same for the activity of a handle, with what may be written over its entry.
LEMMA ActivityChange ==
  ASSUME Activities!ActivityInv, NEW p \in Process, NEW e \in Activities!Entries,
         Activities!Holds(p), Activities!BeginSet(p, handle[p].id, e),
         e.version = handle[p].entry.version, Activities!Follows(e, handle[p].entry)
  PROVE  Activities!ActivityInv'
<1>1. Activities!TypeOK /\ actCall[p] = Activities!Idle /\ handle[p] # None
  BY DEF Activities!Holds, Activities!ActivityInv
<1>2. handle[p].id \in ActivityId /\ handle[p].entry \in Activities!Entries /\ sets \in Nat
  BY <1>1 DEF Activities!TypeOK, Activities!Handles
<1>3. e.version \in 0..sets
  <2>1. handle[p].entry.version <= sets /\ handle[p].entry.version \in Nat
    BY <1>1, <1>2 DEF Activities!ActivityInv, Activities!Entries
  <2> QED
    BY <1>2, <2>1
<1>4. \A q \in Process : actCall[q] # Activities!Idle => actCall[q].number # e.version
  BY <1>1 DEF Activities!ActivityInv, Activities!Fresh
<1>5. ASSUME NEW f \in Activities!Contents, f[handle[p].id] # None, f[handle[p].id].version = e.version
      PROVE  Activities!Follows(e, f[handle[p].id])
  <2>1. Activities!Follows(handle[p].entry, f[handle[p].id])
    BY <1>1, <1>5 DEF Activities!ActivityInv, Activities!HandlesFit
  <2>2. f[handle[p].id] \in Activities!Entries
    BY <1>1, <1>2, <1>5, ActivityContents DEF Activities!Payloads
  <2> QED
    BY <1>2, <2>1, <2>2, FollowsTransitive
<1> QED
  BY <1>1, <1>2, <1>3, <1>4, <1>5, ActivityBegin

\* The last step of set(): entry new of the handle of p goes into what p has loaded.
LEMMA ActivityWrite ==
  ASSUME Activities!ActivityInv, NEW p \in Process, Activities!SetWrite(p)
  PROVE  Activities!ActivityInv'
<1>t. Activities!TypeOK /\ sets \in Nat
  BY DEF Activities!ActivityInv, Activities!TypeOK
<1> DEFINE a == handle[p].id  h == handle[p].entry  n == actCall[p].number
           g == actCall[p].payload  new == [h EXCEPT !.version = n]
           f == [g EXCEPT ![a] = new]  nh == [handle[p] EXCEPT !.entry = new]
<1>1. /\ actCall[p].step = "write" /\ actFile' = f /\ stored' = f
      /\ handle' = [handle EXCEPT ![p] = nh]
      /\ actCall' = [actCall EXCEPT ![p] = Activities!Idle] /\ sets' = sets
  BY DEF Activities!SetWrite
<1>2. /\ actCall[p] # Activities!Idle /\ actCall[p] \in Activities!Dumping /\ handle[p] # None
  <2>1. actCall[p] # Activities!Idle
    BY <1>1, ActivityCalls
  <2> QED
    BY <1>1, <1>t, <2>1, ActivityCalls DEF Activities!TypeOK
<1>3. /\ handle[p] \in Activities!Handles /\ a \in ActivityId /\ h \in Activities!Entries
      /\ g \in Activities!Payloads /\ g \in Activities!Contents
      /\ Activities!Fresh(n) /\ n \in 1..sets
  <2>1. handle[p] \in Activities!Handles
    BY <1>t, <1>2 DEF Activities!TypeOK
  <2>2. Activities!Fresh(n)
    BY <1>2 DEF Activities!ActivityInv
  <2> QED
    BY <1>t, <1>2, <2>1, <2>2, ActivityContents, ActivityCalls
       DEF Activities!Handles, Activities!Fresh
<1>4. /\ new \in Activities!Entries /\ new.version = n /\ new.pct = h.pct /\ new.status = h.status
      /\ new # None
  BY <1>t, <1>3, ActivityAssumption DEF Activities!Entries
<1>5. nh \in Activities!Handles /\ nh.id = a /\ nh.entry = new
  BY <1>3, <1>4 DEF Activities!Handles
<1>6. /\ f \in Activities!Payloads /\ f[a] = new
      /\ \A b \in ActivityId \ {a} : f[b] = g[b]
  BY <1>3, <1>4 DEF Activities!Payloads
<1> HIDE DEF f, new, nh
<1>7. /\ handle'[p] = nh /\ actCall'[p] = Activities!Idle
      /\ \A q \in Process \ {p} : handle'[q] = handle[q] /\ actCall'[q] = actCall[q]
  BY <1>t, <1>1 DEF Activities!TypeOK
<1>8. Activities!TypeOK'
  <2>1. \A q \in Process : actCall'[q] # Activities!Idle => handle'[q] # None
    BY <1>t, <1>7 DEF Activities!TypeOK
  <2> QED
    BY <1>t, <1>1, <1>5, <1>6, <2>1 DEF Activities!TypeOK
<1>9. Activities!Contents' \subseteq Activities!Contents \cup {f}
  BY <1>1, <1>7, ActivityCalls DEF Activities!Contents
<1> HIDE DEF a, h, g, n
<1>10. /\ \A k \in Activities!Contents : Activities!HandlesFit(k)
       /\ \A k \in Activities!Contents, m \in Activities!Contents : Activities!SameEntry(k, m)
       /\ \A k \in Activities!Contents, b \in ActivityId : k[b] # None => k[b].version \in 1..sets /\ k[b].version # n
       /\ \A q \in Process : handle[q] # None => handle[q].entry.version <= sets /\ handle[q].entry.version # n
  BY <1>3 DEF Activities!ActivityInv, Activities!Fresh
<1>11. ASSUME NEW k \in Activities!Contents PROVE Activities!SameEntry(k, f) /\ Activities!SameEntry(f, k)
  <2> SUFFICES ASSUME NEW b \in ActivityId, k[b] # None, f[b] # None, k[b].version = f[b].version
               PROVE  k[b] = f[b]
    BY DEF Activities!SameEntry
  <2>1. CASE b = a
    BY <1>4, <1>6, <1>10, <2>1
  <2>2. CASE b # a
    BY <1>3, <1>6, <1>10, <2>2 DEF Activities!SameEntry
  <2> QED
    BY <2>1, <2>2
<1>12. \A k \in Activities!Contents', m \in Activities!Contents' : Activities!SameEntry(k, m)
  <2>1. Activities!SameEntry(f, f)
    BY DEF Activities!SameEntry
  <2> QED
    BY <1>9, <1>10, <1>11, <2>1
<1>13. \A b \in ActivityId : f[b] # None => f[b].version \in 1..sets
  <2> SUFFICES ASSUME NEW b \in ActivityId, f[b] # None PROVE f[b].version \in 1..sets
    OBVIOUS
  <2>1. CASE b = a
    BY <1>3, <1>4, <1>6, <2>1
  <2>2. CASE b # a
    BY <1>3, <1>6, <1>10, <2>2
  <2> QED
    BY <2>1, <2>2
<1>14. \A k \in Activities!Contents', b \in ActivityId : k[b] # None => k[b].version \in 1..sets'
  BY <1>1, <1>9, <1>10, <1>13
<1>15. ASSUME NEW k \in Activities!Contents \cup {f}, NEW q \in Process, handle'[q] # None,
              k[handle'[q].id] # None, k[handle'[q].id].version = handle'[q].entry.version
       PROVE  Activities!Follows(handle'[q].entry, k[handle'[q].id])
  <2>1. CASE q = p
    <3>1. k = f
      BY <1>3, <1>4, <1>5, <1>7, <1>10, <1>15, <2>1
    <3> QED
      BY <1>4, <1>5, <1>6, <1>7, <2>1, <3>1, FollowsFacts
  <2>2. CASE q # p /\ k \in Activities!Contents
    BY <1>7, <1>10, <1>15, <2>2 DEF Activities!HandlesFit
  <2>3. CASE q # p /\ k = f
    <3>1. handle'[q] = handle[q] /\ handle[q].id \in ActivityId /\ handle[q].entry.version # n
      BY <1>t, <1>7, <1>10, <1>15, <2>3 DEF Activities!TypeOK, Activities!Handles
    <3>2. handle[q].id # a
      BY <1>4, <1>6, <1>15, <2>3, <3>1
    <3>3. k[handle[q].id] = g[handle[q].id]
      BY <1>6, <2>3, <3>1, <3>2
    <3> QED
      BY <1>3, <1>10, <1>15, <3>1, <3>3 DEF Activities!HandlesFit
  <2> QED
    BY <1>15, <2>1, <2>2, <2>3
<1>16. \A k \in Activities!Contents' : Activities!HandlesFit(k)'
  BY <1>9, <1>15 DEF Activities!HandlesFit
<1>17. \A q \in Process : handle'[q] # None => handle'[q].entry.version <= sets'
  <2> SUFFICES ASSUME NEW q \in Process, handle'[q] # None PROVE handle'[q].entry.version <= sets
    BY <1>1
  <2>1. CASE q = p
    BY <1>t, <1>3, <1>4, <1>5, <1>7, <2>1
  <2>2. CASE q # p
    BY <1>7, <1>10, <2>2
  <2> QED
    BY <2>1, <2>2
<1>18. ASSUME NEW q \in Process, actCall'[q] # Activities!Idle
       PROVE  /\ Activities!Fresh(actCall[q].number)'
              /\ \A r \in Process \ {q} : actCall'[r].number # actCall'[q].number
  <2>1. PICK m : m = actCall[q].number
    OBVIOUS
  <2>2. q # p /\ actCall'[q].number = m /\ Activities!Fresh(m) /\ m # n /\ m \in 1..sets
        /\ \A r \in Process \ {q} : actCall[r].number # m
    BY <1>7, <1>18, <2>1 DEF Activities!ActivityInv, Activities!Fresh, n
  <2>3. Activities!Idle.number # m
    BY <1>t, <2>2 DEF Activities!Idle
  <2>4. \A b \in ActivityId : f[b] # None => f[b].version # m
    BY <1>3, <1>4, <1>6, <2>2 DEF Activities!Fresh
  <2>5. \A k \in Activities!Contents', b \in ActivityId : k[b] # None => k[b].version # m
    BY <1>9, <2>2, <2>4 DEF Activities!Fresh
  <2>6. ASSUME NEW r \in Process, handle'[r] # None PROVE handle'[r].entry.version # m
    BY <1>4, <1>5, <1>7, <2>2, <2>6 DEF Activities!Fresh
  <2>7. \A r \in Process \ {q} : actCall'[r].number # m
    BY <1>7, <2>2, <2>3
  <2> QED
    BY <1>1, <2>2, <2>5, <2>6, <2>7 DEF Activities!Fresh
<1>19. actFile' # None => actFile' = stored'
  BY <1>1
<1> QED
  BY <1>8, <1>12, <1>14, <1>16, <1>17, <1>18, <1>19 DEF Activities!ActivityInv, Activities!Empty

\* One case per operation and per step of set().
LEMMA ActivityStep ==
  Activities!ActivityInv /\ [Activities!Next]_(Activities!vars) => Activities!ActivityInv'
<1> SUFFICES ASSUME Activities!ActivityInv, [Activities!Next]_(Activities!vars)
             PROVE  Activities!ActivityInv'
  OBVIOUS
<1>t. Activities!TypeOK /\ (actFile # None => actFile = stored) /\ sets \in Nat
  BY DEF Activities!ActivityInv, Activities!Empty, Activities!TypeOK
<1>h. ASSUME NEW p \in Process, handle[p] # None
      PROVE  /\ handle[p] \in Activities!Handles
             /\ handle[p].id \in ActivityId /\ handle[p].entry \in Activities!Entries
             /\ handle[p].entry.version \in 0..sets
             /\ \A q \in Process : actCall[q] # Activities!Idle =>
                  actCall[q].number # handle[p].entry.version
             /\ \A f \in Activities!Contents :
                  f[handle[p].id] # None /\ f[handle[p].id].version = handle[p].entry.version =>
                    Activities!Follows(handle[p].entry, f[handle[p].id])
  <2>1. handle[p] \in Activities!Handles
    BY <1>t, <1>h DEF Activities!TypeOK
  <2>2. handle[p].id \in ActivityId /\ handle[p].entry \in Activities!Entries
    BY <2>1 DEF Activities!Handles
  <2>3. handle[p].entry.version <= sets /\ handle[p].entry.version \in Nat
    BY <1>h, <2>2 DEF Activities!ActivityInv, Activities!Entries
  <2>4. handle[p].entry.version \in 0..sets
    BY <1>t, <2>3
  <2>5. \A q \in Process : actCall[q] # Activities!Idle =>
          actCall[q].number # handle[p].entry.version
    BY <1>h DEF Activities!ActivityInv, Activities!Fresh
  <2>6. \A f \in Activities!Contents :
          f[handle[p].id] # None /\ f[handle[p].id].version = handle[p].entry.version =>
            Activities!Follows(handle[p].entry, f[handle[p].id])
    BY <1>h DEF Activities!ActivityInv, Activities!HandlesFit
  <2> QED
    BY <2>1, <2>2, <2>4, <2>5, <2>6
<1>s. ASSUME NEW p \in Process, actCall[p].step \in {"load", "open", "write"}
      PROVE  /\ actCall[p] # Activities!Idle /\ handle[p] # None
             /\ actCall[p].step = "load" => actCall[p] \in Activities!Loading
             /\ actCall[p].step \in {"open", "write"} =>
                  actCall[p] \in Activities!Dumping /\ actCall[p].payload \in Activities!Payloads
  <2>1. actCall[p] # Activities!Idle
    BY <1>s, ActivityCalls
  <2>2. handle[p] # None /\ actCall[p] \in Activities!Loading \cup Activities!Dumping
    BY <1>t, <2>1 DEF Activities!TypeOK
  <2> QED
    BY <2>1, <2>2, ActivityCalls
<1>1. ASSUME NEW p \in Process, NEW a \in ActivityId, Activities!Create(p, a)
      PROVE  Activities!ActivityInv'
  <2> DEFINE e == Activities!Entry("NEW", 0, 0)
  <2>1. e \in Activities!Entries /\ e.version = 0
    BY DEF Activities!Entry, Activities!Entries
  <2>2. actCall[p] = Activities!Idle /\ Activities!BeginSet(p, a, e)
    BY <1>1 DEF Activities!Create
  <2> HIDE DEF e
  <2>3. \A f \in Activities!Contents : f[a] # None => f[a].version # e.version
    <3>1. \A f \in Activities!Contents : f[a] # None => f[a].version \in 1..sets
      BY DEF Activities!ActivityInv
    <3> QED
      BY <1>t, <2>1, <3>1
  <2>4. \A q \in Process : actCall[q] # Activities!Idle => actCall[q].number # e.version
    <3>1. \A q \in Process : actCall[q] # Activities!Idle => actCall[q].number \in 1..sets
      BY DEF Activities!ActivityInv, Activities!Fresh
    <3> QED
      BY <1>t, <2>1, <3>1
  <2>5. e.version \in 0..sets
    BY <1>t, <2>1
  <2> QED
    BY <2>1, <2>2, <2>3, <2>4, <2>5, ActivityBegin
<1>2. ASSUME NEW p \in Process, NEW pct \in Percent, Activities!Update(p, pct)
      PROVE  Activities!ActivityInv'
  <2> DEFINE h == handle[p].entry  e == Activities!Entry("IN_PROGRESS", pct, h.version)
  <2>1. /\ Activities!Holds(p) /\ ~Activities!IsComplete(h) /\ pct >= h.pct /\ pct \in 0..99
        /\ Activities!BeginSet(p, handle[p].id, e)
    BY <1>2 DEF Activities!Update, Activities!UpdateIf
  <2>2. h \in Activities!Entries
    BY <1>h, <2>1 DEF Activities!Holds
  <2>3. e \in Activities!Entries /\ e.pct = pct /\ e.version = h.version
    BY <2>1, <2>2 DEF Activities!Entry, Activities!Entries
  <2>4. Activities!Follows(e, h)
    BY <2>1, <2>3, ActivityAssumption DEF Activities!Follows
  <2> HIDE DEF e
  <2> QED
    BY <2>1, <2>3, <2>4, ActivityChange
<1>3. ASSUME NEW p \in Process, Activities!Finish(p) PROVE Activities!ActivityInv'
  <2> DEFINE h == handle[p].entry  e == Activities!Entry("COMPLETED", 100, h.version)
  <2>1. Activities!Holds(p) /\ Activities!BeginSet(p, handle[p].id, e)
    BY <1>3 DEF Activities!Finish
  <2>2. h \in Activities!Entries
    BY <1>h, <2>1 DEF Activities!Holds
  <2>3. e \in Activities!Entries /\ e.version = h.version /\ Activities!IsComplete(e) /\ h.pct <= e.pct
    BY <2>2 DEF Activities!Entry, Activities!Entries, Activities!IsComplete
  <2>4. Activities!Follows(e, h)
    BY <2>2, <2>3, ActivityAssumption DEF Activities!Follows, Activities!Entries
  <2> HIDE DEF e
  <2> QED
    BY <2>1, <2>3, <2>4, ActivityChange
<1>4. ASSUME NEW p \in Process, Activities!Suspend(p) PROVE Activities!ActivityInv'
  <2> DEFINE h == handle[p].entry  e == [h EXCEPT !.status = "SUSPENDED"]
  <2>1. /\ Activities!Holds(p) /\ Activities!BeginSet(p, handle[p].id, e)
        /\ ~Activities!IsComplete(h)
    BY <1>4 DEF Activities!Suspend
  <2>2. h \in Activities!Entries
    BY <1>h, <2>1 DEF Activities!Holds
  <2>3. e \in Activities!Entries /\ e.version = h.version /\ e.pct = h.pct
    BY <2>2 DEF Activities!Entries
  <2>4. Activities!Follows(e, h)
    BY <2>1, <2>2, <2>3, ActivityAssumption DEF Activities!Follows, Activities!Entries
  <2> HIDE DEF e
  <2> QED
    BY <2>1, <2>3, <2>4, ActivityChange
<1>5. ASSUME NEW p \in Process, NEW a \in ActivityId, Activities!Get(p, a)
      PROVE  Activities!ActivityInv'
  <2> DEFINE h == [id |-> a, entry |-> actFile[a]]
  <2>1. /\ actCall[p] = Activities!Idle /\ actFile = stored /\ actFile # None /\ actFile[a] # None
        /\ handle' = [handle EXCEPT ![p] = h]
        /\ UNCHANGED <<actFile, actCall, stored, sets>>
    BY <1>5, <1>t DEF Activities!Get, Activities!Empty
  <2>2. actFile \in Activities!Contents /\ actFile[a] \in Activities!Entries
    BY <1>t, <2>1, ActivityContents DEF Activities!Payloads
  <2>3. h \in Activities!Handles /\ h.id = a /\ h.entry = actFile[a]
    BY <2>2 DEF Activities!Handles
  <2> HIDE DEF h
  <2>4. handle'[p] = h /\ \A q \in Process \ {p} : handle'[q] = handle[q]
    BY <1>t, <2>1 DEF Activities!TypeOK
  <2>5. Activities!TypeOK'
    BY <1>t, <2>1, <2>3, <2>4 DEF Activities!TypeOK
  <2>6. Activities!Contents' = Activities!Contents
    BY <2>1 DEF Activities!Contents
  <2>7. h.entry.version \in 0..sets
    <3>1. h.entry.version \in 1..sets
      BY <2>1, <2>2, <2>3 DEF Activities!ActivityInv
    <3> QED
      BY <1>t, <3>1
  <2>8. \A q \in Process : actCall[q] # Activities!Idle => actCall[q].number # h.entry.version
    BY <2>1, <2>2, <2>3 DEF Activities!ActivityInv, Activities!Fresh
  <2>9. ASSUME NEW f \in Activities!Contents, f[a] # None, f[a].version = h.entry.version
        PROVE  Activities!Follows(h.entry, f[a])
    <3>1. f[a] = h.entry
      BY <2>1, <2>2, <2>3, <2>9 DEF Activities!ActivityInv, Activities!SameEntry
    <3> QED
      BY <2>2, <2>3, <3>1, FollowsFacts
  <2> QED
    BY <1>t, <2>1, <2>3, <2>4, <2>5, <2>6, <2>7, <2>8, <2>9, ActivityKept
<1>6. ASSUME NEW p \in Process, Activities!SetLoad(p) PROVE Activities!ActivityInv'
  <2> DEFINE c == IF actFile = None THEN Activities!Idle
                  ELSE [actCall[p] EXCEPT !.step = "open", !.payload = actFile]
  <2>0. /\ actCall[p].step = "load" /\ UNCHANGED <<actFile, handle, stored, sets>>
        /\ actCall' = [actCall EXCEPT ![p] = c]
    BY <1>6, <1>t DEF Activities!SetLoad, Activities!Empty, Activities!TypeOK
  <2>1. actCall[p] # Activities!Idle /\ handle[p] # None /\ actCall[p] \in Activities!Loading
    BY <1>s, <2>0
  <2>2. actFile # None => actFile \in Activities!Payloads /\ actFile = stored
    BY <1>t DEF Activities!TypeOK, Activities!Empty
  <2>3. \/ c = Activities!Idle
        \/ c \in Activities!Dumping /\ c.payload = stored /\ c.number = actCall[p].number
    BY <2>1, <2>2 DEF Activities!Loading, Activities!Dumping
  <2> HIDE DEF c
  <2>4. actCall'[p] = c /\ \A q \in Process \ {p} : actCall'[q] = actCall[q]
    BY <1>t, <2>0 DEF Activities!TypeOK
  <2>5. Activities!TypeOK'
    <3>1. \A q \in Process : actCall'[q] # Activities!Idle => handle'[q] # None
      BY <1>t, <2>0, <2>1, <2>4 DEF Activities!TypeOK
    <3> QED
      BY <1>t, <2>0, <2>3, <3>1 DEF Activities!TypeOK
  <2>6. Activities!Contents' \subseteq Activities!Contents
    <3>1. Activities!Idle \notin Activities!Dumping
      BY ActivityCalls
    <3> QED
      BY <2>0, <2>3, <2>4, <3>1 DEF Activities!Contents
  <2>7. actCall'[p] # Activities!Idle => actCall'[p].number = actCall[p].number
    BY <2>3, <2>4
  <2> QED
    BY <1>t, <1>h, <2>0, <2>1, <2>4, <2>5, <2>6, <2>7, ActivityKept
<1>7. ASSUME NEW p \in Process, Activities!SetOpen(p) PROVE Activities!ActivityInv'
  <2> DEFINE c == [actCall[p] EXCEPT !.step = "write"]
  <2>1. /\ actCall[p].step = "open" /\ actFile' = None /\ actCall' = [actCall EXCEPT ![p] = c]
        /\ UNCHANGED <<handle, stored, sets>>
    BY <1>7 DEF Activities!SetOpen, Activities!Empty
  <2>2. /\ actCall[p] # Activities!Idle /\ handle[p] # None /\ actCall[p] \in Activities!Dumping
        /\ c \in Activities!Dumping /\ c.payload = actCall[p].payload /\ c.number = actCall[p].number
    BY <1>s, <2>1 DEF Activities!Dumping
  <2> HIDE DEF c
  <2>4. actCall'[p] = c /\ \A q \in Process \ {p} : actCall'[q] = actCall[q]
    BY <1>t, <2>1 DEF Activities!TypeOK
  <2>5. Activities!TypeOK'
    <3>1. \A q \in Process : actCall'[q] # Activities!Idle => handle'[q] # None
      BY <1>t, <2>1, <2>2, <2>4 DEF Activities!TypeOK
    <3> QED
      BY <1>t, <2>1, <2>2, <3>1 DEF Activities!TypeOK, Activities!Empty
  <2>6. Activities!Contents' \subseteq Activities!Contents
    BY <2>1, <2>2, <2>4 DEF Activities!Contents
  <2> QED
    BY <1>t, <1>h, <2>1, <2>2, <2>4, <2>5, <2>6, ActivityKept
<1>8. ASSUME NEW p \in Process, Activities!SetWrite(p) PROVE Activities!ActivityInv'
  BY <1>8, ActivityWrite
<1>9. ASSUME NEW p \in Process, Activities!Crash(p) PROVE Activities!ActivityInv'
  <2>1. /\ handle' = [handle EXCEPT ![p] = None] /\ actCall' = [actCall EXCEPT ![p] = Activities!Idle]
        /\ UNCHANGED <<actFile, stored, sets>>
    BY <1>9 DEF Activities!Crash
  <2>2. /\ handle'[p] = None /\ actCall'[p] = Activities!Idle
        /\ \A q \in Process \ {p} : handle'[q] = handle[q] /\ actCall'[q] = actCall[q]
    BY <1>t, <2>1 DEF Activities!TypeOK
  <2>3. Activities!TypeOK'
    <3>1. \A q \in Process : actCall'[q] # Activities!Idle => handle'[q] # None
      BY <1>t, <2>2 DEF Activities!TypeOK
    <3> QED
      BY <1>t, <2>1, <3>1 DEF Activities!TypeOK
  <2>4. Activities!Contents' \subseteq Activities!Contents
    BY <2>1, <2>2, ActivityCalls DEF Activities!Contents
  <2> QED
    BY <1>t, <2>1, <2>2, <2>3, <2>4, ActivityKept
<1>10. CASE UNCHANGED Activities!vars
  <2>1. UNCHANGED <<actFile, handle, actCall, stored, sets>>
    BY <1>10 DEF Activities!vars
  <2> QED
    BY <2>1 DEF Activities!ActivityInv, Activities!TypeOK, Activities!Contents, Activities!HandlesFit,
                Activities!Fresh
<1> QED
  BY <1>1, <1>2, <1>3, <1>4, <1>5, <1>6, <1>7, <1>8, <1>9, <1>10 DEF Activities!Next

\* What FinishedStays says of a step.
LEMMA ActivityFinished ==
  ASSUME Activities!ActivityInv, Activities!Next
  PROVE  \A p \in Process, a \in ActivityId : stored' # stored /\ actCall'[p] # actCall[p] =>
           \/ Activities!Follows(stored'[a], stored[a])
           \/ actCall[p].payload # stored
           \/ handle[p].id = a /\ handle[p].entry.version # stored[a].version
<1> SUFFICES ASSUME NEW p \in Process, NEW a \in ActivityId, stored' # stored, actCall'[p] # actCall[p],
                    actCall[p].payload = stored,
                    handle[p].id = a => handle[p].entry.version = stored[a].version
             PROVE  Activities!Follows(stored'[a], stored[a])
  OBVIOUS
<1>t. Activities!TypeOK /\ stored \in Activities!Payloads /\ stored \in Activities!Contents
  BY ActivityContents DEF Activities!ActivityInv, Activities!TypeOK
<1>1. PICK q \in Process : Activities!SetWrite(q)
  BY DEF Activities!Next, Activities!Create, Activities!Get, Activities!Update, Activities!UpdateIf,
         Activities!Finish, Activities!Suspend, Activities!BeginSet, Activities!SetLoad,
         Activities!SetOpen, Activities!Crash
<1>2. q = p
  BY <1>t, <1>1 DEF Activities!SetWrite, Activities!TypeOK
<1> DEFINE h == handle[p].entry  new == [h EXCEPT !.version = actCall[p].number]
<1>3. /\ actCall[p].step = "write"
      /\ stored' = [stored EXCEPT ![handle[p].id] = new]
  BY <1>1, <1>2 DEF Activities!SetWrite
<1>4. handle[p] # None /\ actCall[p] \in Activities!Dumping
  <2>1. actCall[p] # Activities!Idle
    BY <1>3, ActivityCalls
  <2> QED
    BY <1>t, <1>3, <2>1, ActivityCalls DEF Activities!TypeOK
<1>5. handle[p].id \in ActivityId /\ h \in Activities!Entries
  BY <1>t, <1>4 DEF Activities!TypeOK, Activities!Handles
<1>6. new \in Activities!Entries /\ new.status = h.status /\ new.pct = h.pct
  BY <1>4, <1>5 DEF Activities!Entries, Activities!Dumping
<1> HIDE DEF new
<1>7. CASE handle[p].id = a
  <2>1. stored'[a] = new
    BY <1>t, <1>3, <1>7 DEF Activities!Payloads
  <2>2. CASE stored[a] = None
    BY <1>6, <2>1, <2>2, FollowsFacts
  <2>3. CASE stored[a] # None
    <3>1. Activities!Follows(h, stored[a])
      BY <1>t, <1>4, <1>7, <2>3 DEF Activities!ActivityInv, Activities!HandlesFit
    <3> QED
      BY <1>6, <2>1, <3>1, ActivityAssumption DEF Activities!Follows, Activities!IsComplete
  <2> QED
    BY <2>2, <2>3
<1>8. CASE handle[p].id # a
  <2>1. stored'[a] = stored[a] /\ stored[a] \in Activities!Entries \cup {None}
    BY <1>t, <1>3, <1>8 DEF Activities!Payloads
  <2> QED
    BY <2>1, FollowsFacts DEF Activities!Follows
<1> QED
  BY <1>7, <1>8

\* Any number of processes and activities, with overlapping sets, second handles and
\* deaths anywhere: a set() that takes back a completed activity or its progress, or
\* loses an entry, loaded the file before another one wrote it, or works on a handle
\* that is not on what is stored (activity_tracker.py's update(), finish() and
\* suspend() over KvStore.set()).
THEOREM ActivityCorrect == Spec => FinishedStays
<1> DEFINE Inv == part = "activity" => Activities!ActivityInv
<1>1. Init => Inv
  <2>1. SUFFICES ASSUME Activities!Init PROVE Activities!ActivityInv
    BY DEF Init
  <2>2. actFile \in Activities!Payloads /\ stored = actFile /\ \A a \in ActivityId : stored[a] = None
    BY <2>1 DEF Activities!Init, Activities!Payloads
  <2>3. Activities!TypeOK
    BY <2>1, <2>2 DEF Activities!Init, Activities!TypeOK
  <2>4. Activities!Contents = {stored} /\ Activities!SameEntry(stored, stored)
    BY <2>1, ActivityCalls DEF Activities!Init, Activities!Contents, Activities!SameEntry
  <2>5. \A p \in Process : handle[p] = None /\ actCall[p] = Activities!Idle
    BY <2>1 DEF Activities!Init
  <2> QED
    BY <2>2, <2>3, <2>4, <2>5 DEF Activities!ActivityInv, Activities!HandlesFit, Activities!Empty
<1>2. Inv /\ [Next]_vars => Inv'
  <2>1. [Next]_vars /\ part' = "activity" => part = "activity" /\ [Activities!Next]_(Activities!vars)
    BY DEF Next, vars, activityVars, Activities!vars
  <2> QED
    BY <2>1, ActivityStep
<1>3. ASSUME Inv, [Next]_vars
      PROVE  [\A p \in Process, a \in ActivityId : stored' # stored /\ actCall'[p] # actCall[p] =>
                \/ Activities!Follows(stored'[a], stored[a])
                \/ actCall[p].payload # stored
                \/ handle[p].id = a /\ handle[p].entry.version # stored[a].version]_(Activities!vars)
  <2>1. CASE part = "activity" /\ Activities!Next
    BY <1>3, <2>1, ActivityFinished
  <2>2. CASE UNCHANGED activityVars
    BY <2>2 DEF activityVars, Activities!vars
  <2> QED
    BY <1>3, <2>1, <2>2 DEF Next, vars
<1> QED
  BY <1>1, <1>2, <1>3, PTL DEF Spec, FinishedStays, Activities!FinishedStays

-----------------------------------------------------------------------------
(* Support bundles.  Archives are never removed, so that what is real      *)
(* stays real.                                                             *)

BundleGrows == \A b \in Bundle : archive[b] # None => archive'[b] # None

\* An archive of an id stays, and a view that is real is real after a step.
LEMMA ArchivedStays ==
  ASSUME BundleGrows, NEW i, Bundles!Archived(i)
  PROVE  Bundles!Archived(i)'
BY DEF BundleGrows, Bundles!Archived

LEMMA RealStays ==
  ASSUME BundleGrows, NEW view, Bundles!Real(view)
  PROVE  \A i \in Bundles!Id : view[i] = "Success" => Bundles!Archived(i)'
BY DEF BundleGrows, Bundles!Real, Bundles!Archived

\* A step of p leaves the other processes alone.
LEMMA BundleOthers ==
  ASSUME Bundles!BundleInv, BundleGrows, NEW p \in Process, NEW q \in Process \ {p},
         sbCall'[q] = sbCall[q], cache'[q] = cache[q], answered'[q] = answered[q]
  PROVE  Bundles!ProcessInv(q)'
<1>1. Bundles!ProcessInv(q) /\ sbCall[q] \in Bundles!Calls \cup {Bundles!Idle}
  BY DEF Bundles!BundleInv, Bundles!TypeOK
<1>2. cache[q] # None => \A i \in Bundles!Id : cache[q][i] = "Success" => Bundles!Archived(i)'
  BY <1>1, RealStays DEF Bundles!ProcessInv
<1>3. sbCall[q] # Bundles!Idle /\ sbCall[q].status = "Success" => archive'[sbCall[q].bundle] # None
  BY <1>1 DEF Bundles!ProcessInv, BundleGrows, Bundles!Calls
<1>4. \A i \in Bundles!Id : answered[q] = <<i, "Success">> => Bundles!Archived(i)'
  BY <1>1, ArchivedStays DEF Bundles!ProcessInv
<1> QED
  BY <1>1, <1>2, <1>3, <1>4 DEF Bundles!ProcessInv, Bundles!Real

\* A step of p that goes on with its call, or ends it, and makes no archive.
LEMMA OneCallStays ==
  ASSUME Bundles!OneCallEach, NEW p \in Process, UNCHANGED <<dirs, packed>>,
         \A q \in Process \ {p} : sbCall'[q] = sbCall[q],
         sbCall'[p] # Bundles!Idle =>
           /\ sbCall[p] # Bundles!Idle /\ sbCall'[p].bundle = sbCall[p].bundle
           /\ sbCall'[p].step \in Bundles!Early => sbCall[p].step \in Bundles!Early
  PROVE  Bundles!OneCallEach'
<1> DEFINE One(q) == sbCall[q] # Bundles!Idle =>
             /\ sbCall[q].bundle \in dirs
             /\ sbCall[q].step \in Bundles!Early => packed[sbCall[q].bundle] = 0
<1>1. \A q \in Process : One(q)
  BY DEF Bundles!OneCallEach
<1>2. ASSUME NEW q \in Process, sbCall'[q] # Bundles!Idle
      PROVE  sbCall[q] # Bundles!Idle /\ sbCall'[q].bundle = sbCall[q].bundle
  <2>1. CASE q = p  BY <1>2, <2>1
  <2>2. CASE q # p  BY <1>2, <2>2
  <2> QED BY <2>1, <2>2
<1>3. ASSUME NEW q \in Process, sbCall'[q] # Bundles!Idle
      PROVE  /\ sbCall'[q].bundle \in dirs
             /\ sbCall'[q].step \in Bundles!Early => packed[sbCall'[q].bundle] = 0
  <2>1. CASE q = p  BY <1>1, <1>3, <2>1
  <2>2. CASE q # p  BY <1>1, <1>3, <2>2
  <2> QED BY <2>1, <2>2
<1>4. ASSUME NEW q \in Process, NEW r \in Process \ {q}, sbCall'[q] # Bundles!Idle,
             sbCall'[r] # Bundles!Idle
      PROVE  sbCall'[r].bundle # sbCall'[q].bundle
  BY <1>2, <1>4 DEF Bundles!OneCallEach
<1>5. \A b \in Bundle \ dirs : packed[b] = 0
  BY DEF Bundles!OneCallEach
<1> HIDE DEF One
<1> QED
  BY <1>3, <1>4, <1>5 DEF Bundles!OneCallEach

\* The steps of p within a call: Goto() and End().
LEMMA BundleCalls ==
  ASSUME Bundles!TypeOK, NEW p \in Process
  PROVE  /\ Bundles!Idle.step = "idle"
         /\ sbCall[p].step # "idle" =>
              /\ sbCall[p] \in Bundles!Calls /\ sbCall[p] # Bundles!Idle
              /\ sbCall[p].bundle \in Bundle
         /\ Bundles!End(p) =>
              /\ sbCall' \in [Process -> Bundles!Calls \cup {Bundles!Idle}]
              /\ sbCall'[p] = Bundles!Idle /\ \A q \in Process \ {p} : sbCall'[q] = sbCall[q]
         /\ \A next \in {"load"} \cup Bundles!Saving :
              sbCall[p].step # "idle" /\ Bundles!Goto(p, next) =>
                /\ sbCall' \in [Process -> Bundles!Calls \cup {Bundles!Idle}]
                /\ sbCall'[p].step = next /\ sbCall'[p].bundle = sbCall[p].bundle
                /\ sbCall'[p].status = sbCall[p].status
                /\ \A q \in Process \ {p} : sbCall'[q] = sbCall[q]
<1>1. Bundles!Idle.step = "idle" /\ sbCall \in [Process -> Bundles!Calls \cup {Bundles!Idle}]
  BY DEF Bundles!Idle, Bundles!TypeOK
<1>2. sbCall[p].step # "idle" => sbCall[p] \in Bundles!Calls /\ sbCall[p] # Bundles!Idle
  BY <1>1
<1>3. sbCall[p].step # "idle" => sbCall[p].bundle \in Bundle
  BY <1>2 DEF Bundles!Calls
<1>4. ASSUME Bundles!End(p)
      PROVE  /\ sbCall' \in [Process -> Bundles!Calls \cup {Bundles!Idle}]
             /\ sbCall'[p] = Bundles!Idle /\ \A q \in Process \ {p} : sbCall'[q] = sbCall[q]
  BY <1>1, <1>4 DEF Bundles!End
<1>5. ASSUME NEW next \in {"load"} \cup Bundles!Saving, sbCall[p].step # "idle", Bundles!Goto(p, next)
      PROVE  /\ sbCall' \in [Process -> Bundles!Calls \cup {Bundles!Idle}]
             /\ sbCall'[p].step = next /\ sbCall'[p].bundle = sbCall[p].bundle
             /\ sbCall'[p].status = sbCall[p].status
             /\ \A q \in Process \ {p} : sbCall'[q] = sbCall[q]
  <2> DEFINE c == [sbCall[p] EXCEPT !.step = next]
  <2>1. c \in Bundles!Calls /\ c.step = next /\ c.bundle = sbCall[p].bundle /\ c.status = sbCall[p].status
    BY <1>2, <1>5 DEF Bundles!Calls
  <2>2. sbCall' = [sbCall EXCEPT ![p] = c]
    BY <1>5 DEF Bundles!Goto
  <2> HIDE DEF c
  <2> QED
    BY <1>1, <2>1, <2>2
<1> QED
  BY <1>1, <1>2, <1>3, <1>4, <1>5

\* One case per step of generate() and get_status().
LEMMA BundleStep == Bundles!BundleInv /\ [Bundles!Next]_(Bundles!vars) => Bundles!BundleInv'
<1> SUFFICES ASSUME Bundles!BundleInv, [Bundles!Next]_(Bundles!vars) PROVE Bundles!BundleInv'
  OBVIOUS
<1>t. /\ Bundles!TypeOK
      /\ Bundles!OneCallEach
      /\ sbFile # None => Bundles!Real(sbFile)
      /\ \A p \in Process : Bundles!ProcessInv(p)
  BY DEF Bundles!BundleInv, Bundles!Empty
<1>0. ASSUME NEW p \in Process, Bundles!TypeOK', BundleGrows, Bundles!ProcessInv(p)',
             \A q \in Process \ {p} :
               sbCall'[q] = sbCall[q] /\ cache'[q] = cache[q] /\ answered'[q] = answered[q],
             Bundles!OneCallEach',
             sbFile' # None => \A i \in Bundles!Id : sbFile'[i] = "Success" => Bundles!Archived(i)
      PROVE  Bundles!BundleInv'
  <2>1. \A q \in Process : Bundles!ProcessInv(q)'
    BY <1>0, BundleOthers
  <2>2. sbFile' # None => Bundles!Real(sbFile)'
    BY <1>0, ArchivedStays DEF Bundles!Real
  <2> QED
    BY <1>0, <2>1, <2>2 DEF Bundles!BundleInv, Bundles!Empty
<1>d. archive' = archive => BundleGrows
  BY DEF BundleGrows
<1> USE DEF Bundles!At
<1>1. ASSUME NEW p \in Process, NEW b \in Bundle, NEW list \in Selections, Bundles!MakeDir(p, b, list)
      PROVE  Bundles!BundleInv'
  <2> DEFINE c == [Bundles!Idle EXCEPT !.step = "load", !.bundle = b, !.todo = list]
  <2>1. /\ b \notin dirs /\ dirs' = dirs \cup {b} /\ sbCall[p].step = "idle"
        /\ sbCall' = [sbCall EXCEPT ![p] = c]
        /\ UNCHANGED <<sbFile, cache, parts, archive, packed, answered>>
    BY <1>1 DEF Bundles!MakeDir, Bundles!MakeDirIf
  <2>2. c \in Bundles!Calls /\ c.step = "load" /\ c.status = None /\ c.bundle = b
    BY BundleAssumption DEF Bundles!Calls, Bundles!Idle
  <2> HIDE DEF c
  <2>4. Bundles!TypeOK'
    BY <1>t, <2>1, <2>2 DEF Bundles!TypeOK
  <2>5. sbCall'[p] = c /\ \A q \in Process \ {p} : sbCall'[q] = sbCall[q]
    BY <1>t, <2>1 DEF Bundles!TypeOK
  <2>6. Bundles!ProcessInv(p)'
    <3>1. Bundles!ProcessInv(p) /\ "load" \notin Bundles!Saving /\ None # "Success"
      BY <1>t, BundleAssumption DEF Bundles!Saving, Bundles!Statuses
    <3> QED
      BY <2>1, <2>2, <2>5, <3>1 DEF Bundles!ProcessInv, Bundles!Real, Bundles!Archived
  <2>7. \A q \in Process \ {p} : sbCall[q] # Bundles!Idle => sbCall[q].bundle # b
    BY <1>t, <2>1 DEF Bundles!OneCallEach
  <2>8. Bundles!OneCallEach'
    <3>1. \A k \in Bundle \ dirs' : packed'[k] = 0
      BY <1>t, <2>1 DEF Bundles!OneCallEach
    <3>2. ASSUME NEW q \in Process, sbCall'[q] # Bundles!Idle
          PROVE  /\ sbCall'[q].bundle \in dirs'
                 /\ sbCall'[q].step \in Bundles!Early => packed'[sbCall'[q].bundle] = 0
      <4>1. CASE q = p
        <5>1. packed[b] = 0
          BY <1>t, <2>1 DEF Bundles!OneCallEach
        <5> QED
          BY <2>1, <2>2, <2>5, <4>1, <5>1
      <4>2. CASE q # p
        BY <1>t, <2>1, <2>5, <3>2, <4>2 DEF Bundles!OneCallEach
      <4> QED
        BY <4>1, <4>2
    <3>3. ASSUME NEW q \in Process, NEW r \in Process \ {q}, sbCall'[q] # Bundles!Idle,
                 sbCall'[r] # Bundles!Idle
          PROVE  sbCall'[r].bundle # sbCall'[q].bundle
      <4>1. CASE q = p
        BY <2>2, <2>5, <2>7, <3>3, <4>1
      <4>2. CASE r = p
        BY <2>2, <2>5, <2>7, <3>3, <4>2
      <4>3. CASE q # p /\ r # p
        BY <1>t, <2>5, <3>3, <4>3 DEF Bundles!OneCallEach
      <4> QED
        BY <4>1, <4>2, <4>3
    <3> QED
      BY <3>1, <3>2, <3>3 DEF Bundles!OneCallEach
  <2> QED
    BY <1>0, <1>d, <1>t, <2>1, <2>4, <2>5, <2>6, <2>8 DEF Bundles!Real
<1>2. ASSUME NEW p \in Process, NEW b \in Bundles!Id, Bundles!GetStatus(p, b) PROVE Bundles!BundleInv'
  <2> DEFINE now == IF cache[p] = None THEN sbFile ELSE cache[p]
  <2>1. /\ cache[p] # None \/ sbFile # None
        /\ cache' = [cache EXCEPT ![p] = now]
        /\ answered' = [answered EXCEPT ![p] = <<b, now[b]>>]
        /\ UNCHANGED <<sbFile, dirs, parts, archive, packed, sbCall>>
    BY <1>2 DEF Bundles!GetStatus, Bundles!Empty, Bundles!disk
  <2>2. now \in Bundles!Views /\ Bundles!Real(now)
    BY <1>t, <2>1 DEF Bundles!TypeOK, Bundles!Empty, Bundles!ProcessInv
  <2> HIDE DEF now
  <2>3. now[b] \in Bundles!Statuses \cup {None}
    BY <2>2 DEF Bundles!Views
  <2>4. Bundles!TypeOK'
    BY <1>t, <2>1, <2>2, <2>3 DEF Bundles!TypeOK
  <2>5. /\ cache'[p] = now /\ answered'[p] = <<b, now[b]>>
        /\ \A q \in Process \ {p} : cache'[q] = cache[q] /\ answered'[q] = answered[q]
    BY <1>t, <2>1 DEF Bundles!TypeOK
  <2>6. now # None
    BY <2>2, BundleAssumption
  <2>7. Bundles!ProcessInv(p)'
    <3>1. Bundles!ProcessInv(p)
      BY <1>t
    <3> QED
      BY <2>1, <2>2, <2>5, <2>6, <3>1 DEF Bundles!ProcessInv, Bundles!Real, Bundles!Archived
  <2>8. Bundles!OneCallEach'
    BY <1>t, <2>1 DEF Bundles!OneCallEach
  <2> QED
    BY <1>0, <1>d, <1>t, <2>1, <2>4, <2>5, <2>7, <2>8 DEF Bundles!Real
<1>3. ASSUME NEW p \in Process, Bundles!LoadOnce(p) PROVE Bundles!BundleInv'
  <2>1. /\ sbCall[p].step = "load" /\ UNCHANGED <<sbFile, dirs, parts, archive, packed, answered>>
        /\ \/ Bundles!End(p) /\ cache' = cache
           \/ /\ cache[p] # None \/ sbFile # None
              /\ cache' = [cache EXCEPT ![p] = IF @ = None THEN sbFile ELSE @]
              /\ Bundles!Goto(p, "begin")
    BY <1>3 DEF Bundles!LoadOnce, Bundles!disk, Bundles!Empty
  <2>2. CASE Bundles!End(p) /\ cache' = cache
    <3>1. /\ sbCall' \in [Process -> Bundles!Calls \cup {Bundles!Idle}]
          /\ sbCall'[p] = Bundles!Idle /\ \A q \in Process \ {p} : sbCall'[q] = sbCall[q]
      BY <1>t, <2>2, BundleCalls
    <3>2. Bundles!TypeOK'
      BY <1>t, <2>1, <2>2, <3>1 DEF Bundles!TypeOK
    <3>3. Bundles!ProcessInv(p)'
      BY <1>t, <2>1, <2>2, <3>1 DEF Bundles!ProcessInv, Bundles!Real, Bundles!Archived,
         Bundles!Saving, Bundles!Idle
    <3>o. Bundles!OneCallEach'
      BY <1>t, <2>1, <3>1, OneCallStays
    <3> QED
      BY <1>0, <1>d, <1>t, <2>1, <2>2, <3>1, <3>2, <3>3, <3>o DEF Bundles!Real
  <2>3. CASE /\ cache[p] # None \/ sbFile # None
             /\ cache' = [cache EXCEPT ![p] = IF @ = None THEN sbFile ELSE @]
             /\ Bundles!Goto(p, "begin")
    <3> DEFINE now == IF cache[p] = None THEN sbFile ELSE cache[p]
    <3>1. /\ sbCall' \in [Process -> Bundles!Calls \cup {Bundles!Idle}]
          /\ sbCall'[p].step = "begin" /\ sbCall'[p].bundle = sbCall[p].bundle
          /\ sbCall'[p].status = sbCall[p].status
          /\ \A q \in Process \ {p} : sbCall'[q] = sbCall[q]
      BY <1>t, <2>1, <2>3, BundleCalls DEF Bundles!Saving
    <3>2. now \in Bundles!Views /\ Bundles!Real(now) /\ cache' = [cache EXCEPT ![p] = now]
      BY <1>t, <2>3 DEF Bundles!TypeOK, Bundles!Empty, Bundles!ProcessInv
    <3> HIDE DEF now
    <3>3. Bundles!TypeOK'
      BY <1>t, <2>1, <3>1, <3>2 DEF Bundles!TypeOK
    <3>4. cache'[p] = now /\ \A q \in Process \ {p} : cache'[q] = cache[q]
      BY <1>t, <3>2 DEF Bundles!TypeOK
    <3>5. now # None
      BY <3>2, BundleAssumption
    <3>6. Bundles!ProcessInv(p)'
      <4>1. Bundles!ProcessInv(p) /\ sbCall[p] # Bundles!Idle
        BY <1>t, <2>1, BundleCalls
      <4> QED
        BY <2>1, <3>1, <3>2, <3>4, <3>5, <4>1 DEF Bundles!ProcessInv, Bundles!Real, Bundles!Archived
    <3>o. Bundles!OneCallEach'
      <4>1. sbCall[p] # Bundles!Idle
        BY <1>t, <2>1, BundleCalls
      <4> QED
        BY <1>t, <2>1, <3>1, <4>1, OneCallStays DEF Bundles!Early
    <3> QED
      BY <1>0, <1>d, <1>t, <2>1, <3>1, <3>3, <3>4, <3>6, <3>o DEF Bundles!Real
  <2> QED
    BY <2>1, <2>2, <2>3
<1>w. ASSUME NEW p \in Process, NEW status \in Bundles!Statuses \cup {None}, NEW next \in Bundles!Saving,
             sbCall[p].step \in Bundles!Saving,
             next \in Bundles!Early => sbCall[p].step \in Bundles!Early, Bundles!SetStatus(p, status), Bundles!Goto(p, next),
             sbFile' = None, UNCHANGED <<dirs, parts, archive, packed, answered>>,
             status = "Success" => archive[sbCall[p].bundle] # None
      PROVE  Bundles!BundleInv'
  <2> DEFINE b == sbCall[p].bundle  now == [cache[p] EXCEPT ![IdOf[b]] = status]
  <2>1. sbCall[p].step # "idle" /\ b \in Bundle /\ sbCall[p] # Bundles!Idle
    BY <1>t, <1>w, BundleCalls DEF Bundles!Saving
  <2>2. /\ sbCall' \in [Process -> Bundles!Calls \cup {Bundles!Idle}]
        /\ sbCall'[p].step = next /\ sbCall'[p].bundle = b
        /\ sbCall'[p].status = sbCall[p].status
        /\ \A q \in Process \ {p} : sbCall'[q] = sbCall[q]
    BY <1>t, <1>w, <2>1, BundleCalls
  <2>3. cache[p] \in Bundles!Views /\ Bundles!Real(cache[p]) /\ Bundles!ProcessInv(p)
    BY <1>t, <1>w DEF Bundles!TypeOK, Bundles!ProcessInv
  <2>4. now \in Bundles!Views /\ Bundles!Real(now)
    <3>1. IdOf[b] \in Bundles!Id
      BY <2>1 DEF Bundles!Id
    <3>2. now \in Bundles!Views
      BY <1>w, <2>3 DEF Bundles!Views
    <3>3. status = "Success" => Bundles!Archived(IdOf[b])
      BY <1>w, <2>1 DEF Bundles!Archived
    <3>4. \A i \in Bundles!Id : now[i] = IF i = IdOf[b] THEN status ELSE cache[p][i]
      BY <2>3 DEF Bundles!Views
    <3> HIDE DEF now
    <3> QED
      BY <2>3, <3>1, <3>2, <3>3, <3>4 DEF Bundles!Real
  <2>5. cache' = [cache EXCEPT ![p] = now]
    BY <1>w DEF Bundles!SetStatus
  <2> HIDE DEF now
  <2>6. Bundles!TypeOK'
    BY <1>t, <1>w, <2>2, <2>4, <2>5 DEF Bundles!TypeOK, Bundles!Empty
  <2>7. cache'[p] = now /\ \A q \in Process \ {p} : cache'[q] = cache[q]
    BY <1>t, <2>5 DEF Bundles!TypeOK
  <2>8. now # None
    BY <2>4, BundleAssumption
  <2>9. Bundles!ProcessInv(p)'
    BY <1>w, <2>1, <2>2, <2>3, <2>4, <2>7, <2>8 DEF Bundles!ProcessInv, Bundles!Real, Bundles!Archived
  <2>10. Bundles!OneCallEach'
    BY <1>t, <1>w, <2>1, <2>2, OneCallStays
  <2> QED
    BY <1>0, <1>d, <1>t, <1>w, <2>2, <2>6, <2>7, <2>9, <2>10
<1>4. ASSUME NEW p \in Process, Bundles!Begin(p) PROVE Bundles!BundleInv'
  <2>1. "begin" \in Bundles!Saving /\ "save" \in Bundles!Saving
        /\ "In-Progress" \in Bundles!Statuses \cup {None}
    BY DEF Bundles!Saving, Bundles!Statuses
  <2> QED
    BY <1>4, <1>w, <2>1 DEF Bundles!Begin, Bundles!Early, Bundles!disk, Bundles!Empty
<1>5. ASSUME NEW p \in Process, Bundles!Finish(p) PROVE Bundles!BundleInv'
  <2>1. "end" \in Bundles!Saving /\ "saveEnd" \in Bundles!Saving
    BY DEF Bundles!Saving
  <2>2. sbCall[p] \in Bundles!Calls /\ sbCall[p] # Bundles!Idle
    BY <1>5, <1>t, BundleCalls DEF Bundles!Finish
  <2>3. /\ sbCall[p].status \in Bundles!Statuses \cup {None}
        /\ sbCall[p].status = "Success" => archive[sbCall[p].bundle] # None
    BY <1>t, <2>2 DEF Bundles!Calls, Bundles!ProcessInv
  <2> QED
    BY <1>5, <1>w, <2>1, <2>3 DEF Bundles!Finish, Bundles!Early, Bundles!disk, Bundles!Empty
<1>6. ASSUME NEW p \in Process, Bundles!Save(p) PROVE Bundles!BundleInv'
  <2>1. /\ sbCall[p].step \in {"save", "saveEnd"} /\ sbFile' = cache[p]
        /\ UNCHANGED <<cache, dirs, parts, archive, packed, answered>>
        /\ Bundles!End(p) \/ Bundles!Goto(p, "collect")
    BY <1>6 DEF Bundles!Save, Bundles!disk
  <2>2. sbCall[p].step # "idle" /\ sbCall[p] # Bundles!Idle /\ sbCall[p].step \in Bundles!Saving
    BY <1>t, <2>1, BundleCalls DEF Bundles!Saving
  <2>3. cache[p] \in Bundles!Views /\ Bundles!Real(cache[p]) /\ Bundles!ProcessInv(p)
    BY <1>t, <2>2 DEF Bundles!TypeOK, Bundles!ProcessInv
  <2>4. cache[p] # None
    BY <2>3, BundleAssumption
  <2>5. CASE Bundles!End(p)
    <3>1. /\ sbCall' \in [Process -> Bundles!Calls \cup {Bundles!Idle}]
          /\ sbCall'[p] = Bundles!Idle /\ \A q \in Process \ {p} : sbCall'[q] = sbCall[q]
      BY <1>t, <2>5, BundleCalls
    <3>2. Bundles!TypeOK'
      BY <1>t, <2>1, <2>3, <3>1 DEF Bundles!TypeOK
    <3>3. Bundles!ProcessInv(p)'
      BY <2>1, <2>3, <2>4, <3>1 DEF Bundles!ProcessInv, Bundles!Real, Bundles!Archived
    <3>o. Bundles!OneCallEach'
      BY <1>t, <2>1, <3>1, OneCallStays
    <3> QED
      BY <1>0, <1>d, <1>t, <2>1, <2>3, <3>1, <3>2, <3>3, <3>o DEF Bundles!Real
  <2>6. CASE Bundles!Goto(p, "collect")
    <3>1. /\ sbCall' \in [Process -> Bundles!Calls \cup {Bundles!Idle}]
          /\ sbCall'[p].step = "collect" /\ sbCall'[p].bundle = sbCall[p].bundle
          /\ sbCall'[p].status = sbCall[p].status
          /\ \A q \in Process \ {p} : sbCall'[q] = sbCall[q]
      BY <1>t, <2>2, <2>6, BundleCalls DEF Bundles!Saving
    <3>2. Bundles!TypeOK'
      BY <1>t, <2>1, <2>3, <3>1 DEF Bundles!TypeOK
    <3>3. Bundles!ProcessInv(p)'
      BY <2>1, <2>2, <2>3, <2>4, <3>1 DEF Bundles!ProcessInv, Bundles!Real, Bundles!Archived
    <3>o. Bundles!OneCallEach'
      <4>1. sbCall[p].step = "save"
        BY <1>6, <2>1, <2>4, <2>5, <3>1 DEF Bundles!Save, Bundles!Idle, Bundles!End
      <4> QED
        BY <1>t, <2>1, <2>2, <3>1, <4>1, OneCallStays DEF Bundles!Early
    <3> QED
      BY <1>0, <1>d, <1>t, <2>1, <2>3, <3>1, <3>2, <3>3, <3>o DEF Bundles!Real
  <2> QED
    BY <2>1, <2>5, <2>6
<1>7. ASSUME NEW p \in Process, Bundles!Collect(p) PROVE Bundles!BundleInv'
  <2> DEFINE b == sbCall[p].bundle
  <2>1. /\ sbCall[p].step = "collect" /\ sbCall[p].todo # <<>>
        /\ UNCHANGED <<sbFile, cache, dirs, archive, packed, answered>>
        /\ \/ /\ parts' \in {parts, [parts EXCEPT ![b] = @ \cup {Head(sbCall[p].todo)}]}
              /\ sbCall' = [sbCall EXCEPT ![p].todo = Tail(@)]
           \/ Bundles!End(p) /\ parts' = parts
    BY <1>7 DEF Bundles!Collect
  <2>2. /\ sbCall[p] \in Bundles!Calls /\ sbCall[p] # Bundles!Idle /\ b \in Bundle
        /\ sbCall[p].todo \in Seq(Bundles!Components) /\ Bundles!ProcessInv(p)
    BY <1>t, <2>1, BundleCalls DEF Bundles!Calls
  <2>3. CASE Bundles!End(p) /\ parts' = parts
    <3>1. /\ sbCall' \in [Process -> Bundles!Calls \cup {Bundles!Idle}]
          /\ sbCall'[p] = Bundles!Idle /\ \A q \in Process \ {p} : sbCall'[q] = sbCall[q]
      BY <1>t, <2>3, BundleCalls
    <3>2. Bundles!TypeOK'
      BY <1>t, <2>1, <2>3, <3>1 DEF Bundles!TypeOK
    <3>3. Bundles!ProcessInv(p)'
      BY <2>1, <2>2, <3>1 DEF Bundles!ProcessInv, Bundles!Real, Bundles!Archived,
         Bundles!Idle, Bundles!Saving
    <3>o. Bundles!OneCallEach'
      BY <1>t, <2>1, <3>1, OneCallStays
    <3> QED
      BY <1>0, <1>d, <1>t, <2>1, <3>1, <3>2, <3>3, <3>o DEF Bundles!Real
  <2>4. CASE /\ parts' \in {parts, [parts EXCEPT ![b] = @ \cup {Head(sbCall[p].todo)}]}
             /\ sbCall' = [sbCall EXCEPT ![p].todo = Tail(@)]
    <3> DEFINE c == [sbCall[p] EXCEPT !.todo = Tail(@)]
    <3>1. Tail(sbCall[p].todo) \in Seq(Bundles!Components) /\ Head(sbCall[p].todo) \in Bundles!Components
      BY <2>1, <2>2
    <3>2. /\ c \in Bundles!Calls /\ c.step = "collect" /\ c.bundle = sbCall[p].bundle
          /\ c.status = sbCall[p].status
      BY <2>1, <2>2, <3>1 DEF Bundles!Calls
    <3>3. sbCall' = [sbCall EXCEPT ![p] = c]
      BY <2>4
    <3> HIDE DEF c
    <3>4. parts' \in [Bundle -> SUBSET Bundles!Components]
      <4>1. parts \in [Bundle -> SUBSET Bundles!Components]
        BY <1>t DEF Bundles!TypeOK
      <4>2. parts[b] \cup {Head(sbCall[p].todo)} \in SUBSET Bundles!Components
        BY <2>2, <3>1, <4>1
      <4> QED
        BY <2>4, <4>1, <4>2
    <3>5. Bundles!TypeOK'
      BY <1>t, <2>1, <3>2, <3>3, <3>4 DEF Bundles!TypeOK
    <3>6. sbCall'[p] = c /\ \A q \in Process \ {p} : sbCall'[q] = sbCall[q]
      BY <1>t, <3>3 DEF Bundles!TypeOK
    <3>7. Bundles!ProcessInv(p)'
      BY <2>1, <2>2, <3>2, <3>6 DEF Bundles!ProcessInv, Bundles!Real, Bundles!Archived
    <3>8. Bundles!OneCallEach'
      BY <1>t, <2>1, <2>2, <3>2, <3>6, OneCallStays
    <3> QED
      BY <1>0, <1>d, <1>t, <2>1, <3>5, <3>6, <3>7, <3>8 DEF Bundles!Real
  <2> QED
    BY <2>1, <2>3, <2>4
<1>8. ASSUME NEW p \in Process, Bundles!Pack(p) PROVE Bundles!BundleInv'
  <2> DEFINE b == sbCall[p].bundle
  <2>1. /\ sbCall[p].step = "collect" /\ parts' = [parts EXCEPT ![b] = {}]
        /\ UNCHANGED <<sbFile, cache, dirs, answered>>
    BY <1>8 DEF Bundles!Pack, Bundles!PackSetting
  <2>2. PICK status \in {"Success", "Failed"} :
          /\ sbCall' = [sbCall EXCEPT ![p].step = "reload", ![p].status = status]
          /\ \/ /\ archive' = [archive EXCEPT ![b] = parts[b]]
                /\ packed' = [packed EXCEPT ![b] = @ + 1]
             \/ UNCHANGED <<archive, packed>> /\ status = "Failed"
    BY <1>8 DEF Bundles!Pack, Bundles!PackSetting
  <2>3. /\ sbCall[p] \in Bundles!Calls /\ sbCall[p] # Bundles!Idle /\ b \in Bundle
        /\ Bundles!ProcessInv(p)
    BY <1>t, <2>1, BundleCalls
  <2> DEFINE c == [sbCall[p] EXCEPT !.step = "reload", !.status = status]
  <2>4. c \in Bundles!Calls /\ c.step = "reload" /\ c.bundle = b /\ c.status = status
    BY <2>3 DEF Bundles!Calls, Bundles!Saving, Bundles!Statuses
  <2>5. sbCall' = [sbCall EXCEPT ![p] = c]
    BY <1>t, <2>2 DEF Bundles!TypeOK
  <2> HIDE DEF c
  <2>6. parts[b] \in SUBSET Bundles!Components /\ archive \in [Bundle -> (SUBSET Bundles!Components) \cup {None}]
    BY <1>t, <2>3 DEF Bundles!TypeOK
  <2>7. parts[b] # None
    BY <2>6, BundleAssumption
  <2>8. /\ archive' \in [Bundle -> (SUBSET Bundles!Components) \cup {None}]
        /\ \A k \in Bundle : archive[k] # None => archive'[k] # None
        /\ status = "Success" => archive'[b] # None
    BY <2>2, <2>3, <2>6, <2>7
  <2>9. sbCall'[p] = c /\ \A q \in Process \ {p} : sbCall'[q] = sbCall[q]
    BY <1>t, <2>5 DEF Bundles!TypeOK
  <2>10. parts' \in [Bundle -> SUBSET Bundles!Components]
    BY <1>t, <2>1 DEF Bundles!TypeOK
  <2>o. packed' \in [Bundle -> {0, 1}] /\ \A k \in Bundle \ {b} : packed'[k] = packed[k]
    <3>1. packed[b] = 0
      BY <1>t, <2>1, <2>3 DEF Bundles!OneCallEach, Bundles!Early
    <3>2. packed \in [Bundle -> {0, 1}]
      BY <1>t DEF Bundles!TypeOK
    <3> QED
      BY <2>2, <2>3, <3>1, <3>2
  <2>11. Bundles!TypeOK'
    BY <1>t, <2>1, <2>4, <2>5, <2>8, <2>10, <2>o DEF Bundles!TypeOK
  <2>12. "collect" \in Bundles!Saving
    BY DEF Bundles!Saving
  <2>13. Bundles!ProcessInv(p)'
    <3>1. BundleGrows
      BY <2>8 DEF BundleGrows
    <3>2. cache[p] # None /\ Bundles!Real(cache[p])
      BY <2>1, <2>3, <2>12 DEF Bundles!ProcessInv
    <3>3. \A i \in Bundles!Id : cache[p][i] = "Success" => Bundles!Archived(i)'
      BY <3>1, <3>2, RealStays
    <3>4. \A i \in Bundles!Id : answered[p] = <<i, "Success">> => Bundles!Archived(i)'
      BY <2>3, <3>1, ArchivedStays DEF Bundles!ProcessInv
    <3> QED
      BY <2>1, <2>4, <2>8, <2>9, <3>2, <3>3, <3>4 DEF Bundles!ProcessInv, Bundles!Real
  <2>14. Bundles!OneCallEach'
    <3>1. \A q \in Process : sbCall[q] # Bundles!Idle =>
            /\ sbCall[q].bundle \in dirs /\ (q # p => sbCall[q].bundle # b)
            /\ sbCall[q].step \in Bundles!Early => packed[sbCall[q].bundle] = 0
      BY <1>t, <2>3 DEF Bundles!OneCallEach
    <3>2. "reload" \notin Bundles!Early /\ dirs \subseteq Bundle
      BY <1>t DEF Bundles!Early, Bundles!TypeOK
    <3>3. \A k \in Bundle \ dirs' : packed'[k] = 0
      BY <1>t, <2>1, <2>3, <2>o, <3>1 DEF Bundles!OneCallEach
    <3>4. ASSUME NEW q \in Process, sbCall'[q] # Bundles!Idle
          PROVE  /\ sbCall'[q].bundle \in dirs' /\ (q # p => sbCall'[q].bundle # b)
                 /\ sbCall'[q].step \in Bundles!Early => packed'[sbCall'[q].bundle] = 0
      <4>1. CASE q = p
        BY <2>1, <2>3, <2>4, <2>9, <3>1, <3>2, <4>1
      <4>2. CASE q # p
        BY <2>1, <2>9, <2>o, <3>1, <3>2, <3>4, <4>2
      <4> QED
        BY <4>1, <4>2
    <3>5. ASSUME NEW q \in Process, NEW r \in Process \ {q}, sbCall'[q] # Bundles!Idle,
                 sbCall'[r] # Bundles!Idle
          PROVE  sbCall'[r].bundle # sbCall'[q].bundle
      <4>1. CASE q = p \/ r = p
        BY <2>4, <2>9, <3>4, <3>5, <4>1
      <4>2. CASE q # p /\ r # p
        BY <1>t, <2>9, <3>5, <4>2 DEF Bundles!OneCallEach
      <4> QED
        BY <4>1, <4>2
    <3> QED
      BY <3>3, <3>4, <3>5 DEF Bundles!OneCallEach
  <2> QED
    BY <1>0, <1>t, <2>1, <2>8, <2>9, <2>11, <2>13, <2>14 DEF Bundles!Real, BundleGrows
<1>9. ASSUME NEW p \in Process, Bundles!Reload(p) PROVE Bundles!BundleInv'
  <2>1. /\ sbCall[p].step = "reload" /\ UNCHANGED <<sbFile, dirs, parts, archive, packed, answered>>
        /\ \/ Bundles!End(p) /\ cache' = cache
           \/ sbFile # None /\ cache' = [cache EXCEPT ![p] = sbFile] /\ Bundles!Goto(p, "end")
    BY <1>9 DEF Bundles!Reload, Bundles!disk, Bundles!Empty
  <2>2. CASE Bundles!End(p) /\ cache' = cache
    <3>1. /\ sbCall' \in [Process -> Bundles!Calls \cup {Bundles!Idle}]
          /\ sbCall'[p] = Bundles!Idle /\ \A q \in Process \ {p} : sbCall'[q] = sbCall[q]
      BY <1>t, <2>2, BundleCalls
    <3>2. Bundles!TypeOK'
      BY <1>t, <2>1, <2>2, <3>1 DEF Bundles!TypeOK
    <3>3. Bundles!ProcessInv(p)'
      BY <1>t, <2>1, <2>2, <3>1 DEF Bundles!ProcessInv, Bundles!Real, Bundles!Archived,
         Bundles!Saving, Bundles!Idle
    <3>o. Bundles!OneCallEach'
      BY <1>t, <2>1, <3>1, OneCallStays
    <3> QED
      BY <1>0, <1>d, <1>t, <2>1, <2>2, <3>1, <3>2, <3>3, <3>o DEF Bundles!Real
  <2>3. CASE sbFile # None /\ cache' = [cache EXCEPT ![p] = sbFile] /\ Bundles!Goto(p, "end")
    <3>1. /\ sbCall' \in [Process -> Bundles!Calls \cup {Bundles!Idle}]
          /\ sbCall'[p].step = "end" /\ sbCall'[p].bundle = sbCall[p].bundle
          /\ sbCall'[p].status = sbCall[p].status
          /\ \A q \in Process \ {p} : sbCall'[q] = sbCall[q]
      BY <1>t, <2>1, <2>3, BundleCalls DEF Bundles!Saving
    <3>2. sbFile \in Bundles!Views /\ Bundles!Real(sbFile)
      BY <1>t, <2>3 DEF Bundles!TypeOK, Bundles!Empty
    <3>3. Bundles!TypeOK'
      BY <1>t, <2>1, <2>3, <3>1, <3>2 DEF Bundles!TypeOK
    <3>4. cache'[p] = sbFile /\ \A q \in Process \ {p} : cache'[q] = cache[q]
      BY <1>t, <2>3 DEF Bundles!TypeOK
    <3>5. Bundles!ProcessInv(p)'
      <4>1. Bundles!ProcessInv(p) /\ sbCall[p] # Bundles!Idle
        BY <1>t, <2>1, BundleCalls
      <4> QED
        BY <2>1, <2>3, <3>1, <3>2, <3>4, <4>1 DEF Bundles!ProcessInv, Bundles!Real, Bundles!Archived
    <3>o. Bundles!OneCallEach'
      <4>1. sbCall[p] # Bundles!Idle
        BY <1>t, <2>1, BundleCalls
      <4> QED
        BY <1>t, <2>1, <3>1, <4>1, OneCallStays DEF Bundles!Early
    <3> QED
      BY <1>0, <1>d, <1>t, <2>1, <3>1, <3>3, <3>4, <3>5, <3>o DEF Bundles!Real
  <2> QED
    BY <2>1, <2>2, <2>3
<1>10. ASSUME NEW p \in Process, Bundles!Crash(p) PROVE Bundles!BundleInv'
  <2>1. /\ Bundles!End(p) /\ cache' = [cache EXCEPT ![p] = None]
        /\ answered' = [answered EXCEPT ![p] = None]
        /\ UNCHANGED <<sbFile, dirs, parts, archive, packed>>
    BY <1>10 DEF Bundles!Crash, Bundles!disk
  <2>2. /\ sbCall' \in [Process -> Bundles!Calls \cup {Bundles!Idle}]
        /\ sbCall'[p] = Bundles!Idle /\ \A q \in Process \ {p} : sbCall'[q] = sbCall[q]
    BY <1>t, <2>1, BundleCalls
  <2>3. Bundles!TypeOK'
    BY <1>t, <2>1, <2>2 DEF Bundles!TypeOK
  <2>4. /\ cache'[p] = None /\ answered'[p] = None
        /\ \A q \in Process \ {p} : cache'[q] = cache[q] /\ answered'[q] = answered[q]
    BY <1>t, <2>1 DEF Bundles!TypeOK
  <2>5. \A i \in Bundles!Id : <<i, "Success">> # None
    BY BundleAssumption
  <2>6. Bundles!ProcessInv(p)'
    BY <2>2, <2>4, <2>5 DEF Bundles!ProcessInv, Bundles!Idle, Bundles!Saving
  <2>7. Bundles!OneCallEach'
    BY <1>t, <2>1, <2>2, OneCallStays
  <2> QED
    BY <1>0, <1>d, <1>t, <2>1, <2>2, <2>3, <2>4, <2>6, <2>7 DEF Bundles!Real
<1>11. CASE UNCHANGED Bundles!vars
  <2>1. UNCHANGED <<sbFile, cache, dirs, parts, archive, packed, sbCall, answered>>
    BY <1>11 DEF Bundles!vars
  <2> QED
    BY <1>t, <2>1 DEF Bundles!BundleInv, Bundles!TypeOK, Bundles!ProcessInv, Bundles!Real, Bundles!Empty,
       Bundles!OneCallEach, Bundles!Archived
<1> QED
  BY <1>1, <1>2, <1>3, <1>4, <1>5, <1>6, <1>7, <1>8, <1>9, <1>10, <1>11 DEF Bundles!Next

\* Any number of processes, bundles, ids and components, and deaths anywhere: a status of
\* Success for an id means that an archive was made for a bundle of that id, at one path
\* or another, and no archive is ever made again (support_bundle's generate() and
\* get_status()).
THEOREM BundleCorrect == Spec => []SuccessIsReal
<1> DEFINE Inv == part = "bundle" => Bundles!BundleInv
<1>1. Init => Inv
  <2>1. SUFFICES ASSUME Bundles!Init PROVE Bundles!BundleInv
    BY DEF Init
  <2>2. Bundles!TypeOK
    BY <2>1 DEF Bundles!Init, Bundles!TypeOK, Bundles!Views
  <2>3. None # "Success" /\ \A i \in Bundles!Id : <<i, "Success">> # None
    BY BundleAssumption DEF Bundles!Statuses
  <2>4. Bundles!Real(sbFile)
    BY <2>1, <2>3 DEF Bundles!Init, Bundles!Real
  <2>5. ASSUME NEW p \in Process PROVE Bundles!ProcessInv(p)
    BY <2>1, <2>3 DEF Bundles!Init, Bundles!ProcessInv, Bundles!Idle, Bundles!Saving
  <2> QED
    BY <2>1, <2>2, <2>4, <2>5 DEF Bundles!Init, Bundles!BundleInv, Bundles!OneCallEach
<1>2. Inv /\ [Next]_vars => Inv'
  <2>1. [Next]_vars /\ part' = "bundle" => part = "bundle" /\ [Bundles!Next]_(Bundles!vars)
    BY DEF Next, vars, bundleVars, Bundles!vars
  <2> QED
    BY <2>1, BundleStep
<1>3. ASSUME Bundles!BundleInv PROVE Bundles!SuccessIsReal
  <2>1. \A b \in Bundle : packed[b] <= 1
    BY <1>3 DEF Bundles!BundleInv, Bundles!TypeOK
  <2>2. \A i \in Bundles!Id : sbFile # Bundles!Empty /\ sbFile[i] = "Success" => Bundles!Archived(i)
    BY <1>3 DEF Bundles!BundleInv, Bundles!Real
  <2>3. \A i \in Bundles!Id, p \in Process :
          (cache[p] # None /\ cache[p][i] = "Success") \/ answered[p] = <<i, "Success">>
            => Bundles!Archived(i)
    BY <1>3 DEF Bundles!BundleInv, Bundles!ProcessInv, Bundles!Real
  <2> QED
    BY <2>1, <2>2, <2>3 DEF Bundles!SuccessIsReal
<1>4. Inv => SuccessIsReal
  BY <1>3 DEF SuccessIsReal
<1> QED
  BY <1>1, <1>2, <1>4, PTL DEF Spec

-----------------------------------------------------------------------------
(* kafka_setup.                                                            *)

ServerKeys == Kafka!Defaults \cup Kafka!Extra
ZooKeys == {<<"dataDir">>, <<"tickTime">>} \cup Kafka!Peers
KeysOf(f) == IF f = "server" THEN ServerKeys ELSE ZooKeys
FileSteps == {"server", "zoo", "default", "delete", "defaultZoo", "deleteZoo"}

\* The longest list of servers.
LEMMA LongestList ==
  Kafka!Longest \in Nat /\ \A l \in ServerLists : Len(l) \in Nat /\ Len(l) <= Kafka!Longest
<1> DEFINE S == {Len(l) : l \in ServerLists}
<1>1. \E k \in S : \A l \in ServerLists : Len(l) <= k
  BY KafkaAssumption
<1>2. Kafka!Longest = CHOOSE k \in S : \A l \in ServerLists : Len(l) <= k
  BY DEF Kafka!Longest
<1>3. Kafka!Longest \in S /\ \A l \in ServerLists : Len(l) <= Kafka!Longest
  BY <1>1, <1>2
<1> QED
  BY <1>3, KafkaAssumption

\* The place of the node in a list.
LEMMA PlaceInList ==
  ASSUME NEW l, Kafka!Member(l)
  PROVE  Kafka!Place(l) \in 1..Len(l) /\ l[Kafka!Place(l)] = KafkaHost
BY DEF Kafka!Member, Kafka!Place

\* The keys of zookeeper.properties are told apart.
LEMMA ZooKeysDiffer ==
  /\ <<"dataDir">> # <<"tickTime">>
  /\ \A i : Kafka!Peer(i) # <<"dataDir">> /\ Kafka!Peer(i) # <<"tickTime">>
            /\ Kafka!Peer(i)[2] = i
  /\ \A i, j : Kafka!Peer(i) = Kafka!Peer(j) => i = j
<1>1. <<"dataDir">>[1] = "dataDir" /\ <<"tickTime">>[1] = "tickTime"
  OBVIOUS
<1>2. ASSUME NEW i
      PROVE  Kafka!Peer(i)[1] = "server" /\ Kafka!Peer(i)[2] = i
  BY DEF Kafka!Peer
<1>3. "dataDir" # "tickTime" /\ "server" # "dataDir" /\ "server" # "tickTime"
  OBVIOUS
<1>4. <<"dataDir">> # <<"tickTime">>
  BY <1>1, <1>3
<1>5. ASSUME NEW i PROVE Kafka!Peer(i) # <<"dataDir">> /\ Kafka!Peer(i) # <<"tickTime">>
  BY <1>1, <1>2, <1>3
<1>6. ASSUME NEW i, NEW j, Kafka!Peer(i) = Kafka!Peer(j) PROVE i = j
  BY <1>2, <1>6
<1> QED
  BY <1>2, <1>4, <1>5, <1>6

\* A step writes to keys of its own file; the others write to none.
LEMMA StepKeys ==
  ASSUME NEW s, NEW l, s = "zoo" => l \in ServerLists
  PROVE  /\ s \in FileSteps => /\ DOMAIN Kafka!Update(s, l) \subseteq KeysOf(Kafka!File(s))
                               /\ Kafka!Deletion(s) \subseteq KeysOf(Kafka!File(s))
         /\ s \notin FileSteps => DOMAIN Kafka!Update(s, l) = {} /\ Kafka!Deletion(s) = {}
<1>1. CASE s = "server"
  BY <1>1 DEF Kafka!Update, Kafka!Deletion, Kafka!File, Kafka!ServerProperties, KeysOf, ServerKeys,
     Kafka!Defaults, Kafka!Extra, FileSteps
<1>2. CASE s = "zoo"
  <2>1. /\ Kafka!Update(s, l) = Kafka!ZooProperties(l) /\ Kafka!Deletion(s) = {}
        /\ Kafka!File(s) = "zoo"
    BY <1>2 DEF Kafka!Update, Kafka!Deletion, Kafka!File
  <2>2. DOMAIN Kafka!ZooProperties(l)
          = {<<"dataDir">>, <<"tickTime">>} \cup {Kafka!Peer(i) : i \in 1..Len(l)}
    BY DEF Kafka!ZooProperties
  <2>3. ASSUME NEW i \in 1..Len(l) PROVE Kafka!Peer(i) \in Kafka!Peers
    <3>1. i \in 1..Kafka!Longest
      BY <1>2, LongestList
    <3> QED
      BY <3>1 DEF Kafka!Peers
  <2>4. s \in FileSteps /\ KeysOf(Kafka!File(s)) = ZooKeys
    BY <1>2, <2>1 DEF KeysOf, FileSteps
  <2> QED
    BY <2>1, <2>2, <2>3, <2>4 DEF ZooKeys
<1>3. CASE s \in {"default", "delete"}
  BY <1>3 DEF Kafka!Update, Kafka!Deletion, Kafka!File, KeysOf, ServerKeys, FileSteps
<1>4. CASE s \in {"defaultZoo", "deleteZoo"}
  BY <1>4 DEF Kafka!Update, Kafka!Deletion, Kafka!File, KeysOf, ZooKeys, FileSteps
<1>5. CASE s \notin FileSteps
  BY <1>5 DEF Kafka!Update, Kafka!Deletion, FileSteps
<1> QED
  BY <1>1, <1>2, <1>3, <1>4, <1>5 DEF FileSteps

\* A call that is not in a file has nothing to rewrite.
LEMMA IdleEdit ==
  ASSUME NEW s \in {"idle", "kafka", "myid"}, NEW l
  PROVE  Kafka!EditInv(s, l, {}) /\ Kafka!EditInv(s, l, {})'
BY DEF Kafka!EditInv, Kafka!Update, Kafka!Deletion

\* What is shipped is a pair of files, and names no server.
LEMMA ShippedFiles ==
  /\ Kafka!Shipped = [server |-> Kafka!Shipped.server, zoo |-> Kafka!Shipped.zoo]
  /\ Kafka!Shipped.server = [k \in Kafka!Defaults \cup Kafka!Extra |-> Kafka!Shipped.server[k]]
  /\ Kafka!Shipped.zoo
       = [k \in {<<"dataDir">>, <<"tickTime">>} \cup Kafka!Peers |-> Kafka!Shipped.zoo[k]]
  /\ \A i \in 1..Kafka!Longest : Kafka!Shipped.zoo[Kafka!Peer(i)] = None
<1>1. ASSUME NEW i \in 1..Kafka!Longest PROVE Kafka!Shipped.zoo[Kafka!Peer(i)] = None
  <2>1. Kafka!Peer(i) \in Kafka!Peers /\ Kafka!Peer(i) # <<"dataDir">>
    BY ZooKeysDiffer DEF Kafka!Peers
  <2> QED
    BY <2>1 DEF Kafka!Shipped
<1>2. Kafka!Shipped = [server |-> Kafka!Shipped.server, zoo |-> Kafka!Shipped.zoo]
  BY DEF Kafka!Shipped
<1>3. Kafka!Shipped.server = [k \in Kafka!Defaults \cup Kafka!Extra |-> Kafka!Shipped.server[k]]
  BY DEF Kafka!Shipped
<1>4. Kafka!Shipped.zoo
       = [k \in {<<"dataDir">>, <<"tickTime">>} \cup Kafka!Peers |-> Kafka!Shipped.zoo[k]]
  BY DEF Kafka!Shipped
<1> QED
  BY <1>1, <1>2, <1>3, <1>4

\* Nothing of the node changes, or only what the phase is at.
LEMMA FilesRest ==
  ASSUME Kafka!KafkaInv, UNCHANGED <<kfConf, myid, started, tried, state>>, Kafka!CallInv'
  PROVE  Kafka!KafkaInv'
BY DEF Kafka!KafkaInv, Kafka!FilesInv, Kafka!StateInv, Kafka!StartedInv, Kafka!Given,
   Kafka!MyidWritten, Kafka!ServerWritten
LEMMA NodeRests ==
  ASSUME Kafka!KafkaInv, UNCHANGED <<kfConf, myid, started, kfCall, tried, state>>
  PROVE  Kafka!KafkaInv'
<1>1. Kafka!EditInv(kfCall.step, kfCall.list, kfCall.todo)'
  BY DEF Kafka!KafkaInv, Kafka!CallInv, Kafka!EditInv
<1>2. Kafka!CallInv'
  BY <1>1 DEF Kafka!KafkaInv, Kafka!CallInv, Kafka!Given, Kafka!MyidWritten, Kafka!ServerWritten
<1> QED
  BY <1>2, FilesRest

\* One of the two files changes, and names no server that it did not name.
LEMMA FileChanges ==
  ASSUME Kafka!FilesInv, NEW f \in {"server", "zoo"}, NEW g,
         kfConf' = [kfConf EXCEPT ![f] = g], g = [k \in KeysOf(f) |-> g[k]],
         tried' \subseteq ServerLists, tried \subseteq tried',
         f = "zoo" => \A i \in 1..Kafka!Longest :
           g[Kafka!Peer(i)] # None => kfConf.zoo[Kafka!Peer(i)] # None \/ \E l \in tried' : i <= Len(l)
  PROVE  /\ Kafka!FilesInv'
         /\ f = "server" => kfConf'.server = g /\ kfConf'.zoo = kfConf.zoo
         /\ f = "zoo" => kfConf'.zoo = g /\ kfConf'.server = kfConf.server
<1>1. PICK a, b : a = kfConf.server /\ b = kfConf.zoo
  OBVIOUS
<1>2. kfConf = [server |-> a, zoo |-> b]
  BY <1>1 DEF Kafka!FilesInv
<1>3. /\ f = "server" => kfConf' = [server |-> g, zoo |-> b]
      /\ f = "zoo" => kfConf' = [server |-> a, zoo |-> g]
  BY <1>2
<1>4. /\ kfConf' = [server |-> kfConf'.server, zoo |-> kfConf'.zoo]
      /\ f = "server" => kfConf'.server = g /\ kfConf'.zoo = b
      /\ f = "zoo" => kfConf'.zoo = g /\ kfConf'.server = a
  BY <1>3
<1>5. /\ a = [k \in ServerKeys |-> a[k]] /\ b = [k \in ZooKeys |-> b[k]]
  BY <1>1 DEF Kafka!FilesInv, ServerKeys, ZooKeys
<1>6. /\ kfConf'.server = [k \in ServerKeys |-> kfConf'.server[k]]
      /\ kfConf'.zoo = [k \in ZooKeys |-> kfConf'.zoo[k]]
  BY <1>4, <1>5 DEF KeysOf
<1>7. ASSUME NEW i \in 1..Kafka!Longest, kfConf'.zoo[Kafka!Peer(i)] # None
      PROVE  \E l \in tried' : i <= Len(l)
  <2>1. b[Kafka!Peer(i)] # None \/ \E l \in tried' : i <= Len(l)
    BY <1>1, <1>4, <1>7
  <2>2. b[Kafka!Peer(i)] # None => \E l \in tried : i <= Len(l)
    BY <1>1 DEF Kafka!FilesInv
  <2> QED
    BY <2>1, <2>2
<1> QED
  BY <1>1, <1>4, <1>6, <1>7 DEF Kafka!FilesInv, ServerKeys, ZooKeys

\* A key of the step is rewritten, whatever is lost with it.
LEMMA KeyRewritten ==
  ASSUME Kafka!KafkaInv, NEW k \in kfCall.todo, NEW g, g = Kafka!Rewritten(k, Kafka!Peers)
  PROVE  LET f == Kafka!File(kfCall.step)  s == kfCall.step  old == kfConf[f]
         IN  /\ s \in FileSteps /\ f \in {"server", "zoo"}
             /\ g = [j \in KeysOf(f) |-> g[j]]
             /\ DOMAIN old = KeysOf(f)
             /\ \A j \in KeysOf(f) : g[j] # None => old[j] # None
             /\ s \notin {"delete", "deleteZoo"} =>
                  \A j \in KeysOf(f) : g[j] = IF j = k /\ old[j] # None
                                              THEN Kafka!Update(s, kfCall.list)[j] ELSE old[j]
             /\ s \in {"delete", "deleteZoo"} =>
                  \A j \in KeysOf(f) : g[j] = IF j = k \/ (s = "deleteZoo" /\ j \in Kafka!Peers)
                                              THEN None ELSE old[j]
<1> DEFINE s == kfCall.step  f == Kafka!File(kfCall.step)  old == kfConf[f]
<1>1. /\ Kafka!FilesInv /\ s = "zoo" => kfCall.list \in ServerLists
      /\ k \in DOMAIN Kafka!Update(s, kfCall.list) \cup Kafka!Deletion(s)
  <2>1. Kafka!FilesInv /\ Kafka!EditInv(s, kfCall.list, kfCall.todo)
    BY DEF Kafka!KafkaInv, Kafka!CallInv
  <2>2. s = "zoo" => kfCall.list \in ServerLists
    BY <2>1 DEF Kafka!KafkaInv, Kafka!CallInv, Kafka!Given, Kafka!FilesInv
  <2> QED
    BY <2>1, <2>2 DEF Kafka!EditInv
<1>2. s \in FileSteps /\ f \in {"server", "zoo"}
  <2>1. f \in {"server", "zoo"}
    BY DEF Kafka!File
  <2>2. s \notin FileSteps =>
          DOMAIN Kafka!Update(s, kfCall.list) = {} /\ Kafka!Deletion(s) = {}
    BY DEF Kafka!Update, Kafka!Deletion, FileSteps
  <2> QED
    BY <1>1, <2>1, <2>2
<1>3. DOMAIN old = KeysOf(f)
  <2>1. DOMAIN kfConf.server = ServerKeys /\ DOMAIN kfConf.zoo = ZooKeys
    <3>1. PICK a, b : a = kfConf.server /\ b = kfConf.zoo
      OBVIOUS
    <3>2. Kafka!FilesInv
      BY DEF Kafka!KafkaInv
    <3>3. a = [j \in ServerKeys |-> a[j]] /\ b = [j \in ZooKeys |-> b[j]]
      BY <3>1, <3>2 DEF Kafka!FilesInv, ServerKeys, ZooKeys
    <3> QED
      BY <3>1, <3>3
  <2>2. CASE f = "server"
    BY <2>1, <2>2 DEF KeysOf
  <2>3. CASE f = "zoo"
    BY <2>1, <2>3 DEF KeysOf
  <2> QED
    BY <1>2, <2>2, <2>3
<1>4. PICK d, e : d = old /\ e = Kafka!Update(s, kfCall.list)
  OBVIOUS
<1>5. g = [j \in KeysOf(f) |->
             IF s \in {"delete", "deleteZoo"}
             THEN IF j = k \/ (s = "deleteZoo" /\ j \in Kafka!Peers) THEN None ELSE d[j]
             ELSE IF j = k /\ d[k] # None THEN e[k] ELSE d[j]]
  BY <1>3, <1>4 DEF Kafka!Rewritten
<1> QED
  BY <1>2, <1>3, <1>4, <1>5

\* _update_properties_file() and _delete_properties_from_file() take a key.
LEMMA RewriteStep ==
  ASSUME Kafka!KafkaInv, Kafka!Rewrite
  PROVE  Kafka!KafkaInv'
<1>1. PICK s, l, td, k, g, f, old, upd :
        /\ s = kfCall.step /\ l = kfCall.list /\ td = kfCall.todo /\ k = Kafka!NextKey(td)
        /\ g = Kafka!Rewritten(k, Kafka!Peers) /\ f = Kafka!File(s) /\ old = kfConf[f]
        /\ upd = Kafka!Update(s, l)
  OBVIOUS
<1>2. /\ k \in td /\ kfConf' = [kfConf EXCEPT ![f] = g]
      /\ kfCall' = [kfCall EXCEPT !.todo = td \ {k}]
      /\ myid' = myid /\ started' = started /\ tried' = tried /\ state' = state
  BY <1>1 DEF Kafka!Rewrite, Kafka!RewriteWith, Kafka!NextKey
<1>3. /\ s \in FileSteps /\ f \in {"server", "zoo"}
      /\ g = [j \in KeysOf(f) |-> g[j]] /\ DOMAIN old = KeysOf(f)
      /\ \A j \in KeysOf(f) : g[j] # None => old[j] # None
      /\ s \notin {"delete", "deleteZoo"} =>
           \A j \in KeysOf(f) : g[j] = IF j = k /\ old[j] # None THEN upd[j] ELSE old[j]
      /\ s \in {"delete", "deleteZoo"} =>
           \A j \in KeysOf(f) : g[j] = IF j = k \/ (s = "deleteZoo" /\ j \in Kafka!Peers)
                                       THEN None ELSE old[j]
  BY <1>1, <1>2, KeyRewritten
<1>4. /\ Kafka!FilesInv /\ Kafka!CallInv /\ Kafka!StartedInv /\ tried \subseteq ServerLists
  BY DEF Kafka!KafkaInv, Kafka!FilesInv
<1>5. /\ Kafka!FilesInv'
      /\ f = "server" => kfConf'.server = g /\ kfConf'.zoo = kfConf.zoo
      /\ f = "zoo" => kfConf'.zoo = g /\ kfConf'.server = kfConf.server
  <2>1. ASSUME f = "zoo", NEW i \in 1..Kafka!Longest, g[Kafka!Peer(i)] # None
        PROVE  kfConf.zoo[Kafka!Peer(i)] # None
    <3>1. Kafka!Peer(i) \in KeysOf(f)
      BY <2>1 DEF KeysOf, ZooKeys, Kafka!Peers
    <3> QED
      BY <1>1, <1>3, <2>1, <3>1
  <2> QED
    BY <1>2, <1>3, <1>4, <2>1, FileChanges
<1>6. /\ kfCall = [step |-> s, list |-> l, todo |-> td]
      /\ Kafka!EditInv(s, l, td) /\ state.phase = "none"
      /\ s \in {"server", "zoo"} => Kafka!Given(l) /\ Kafka!MyidWritten(l)
      /\ s = "zoo" => Kafka!ServerWritten(l)
      /\ s = "delete" => \A j \in Kafka!Defaults : kfConf.server[j] = Kafka!Shipped.server[j]
      /\ s \in {"defaultZoo", "deleteZoo"} => kfConf.server = Kafka!Shipped.server
      /\ s = "deleteZoo" => kfConf.zoo[<<"dataDir">>] = "/tmp"
  BY <1>1, <1>3, <1>4 DEF Kafka!CallInv, FileSteps
<1>7. /\ kfCall' = [step |-> s, list |-> l, todo |-> td \ {k}]
      /\ kfCall'.step = s /\ kfCall'.list = l /\ kfCall'.todo = td \ {k}
  BY <1>2, <1>6
<1>8. Kafka!EditInv(s, l, td \ {k})'
  <2>1. /\ td \subseteq DOMAIN upd \cup Kafka!Deletion(s)
        /\ \A j \in DOMAIN upd \ td : old[j] \in {None, upd[j]}
        /\ \A j \in Kafka!Deletion(s) \ td : old[j] = None
    BY <1>1, <1>6 DEF Kafka!EditInv
  <2>2. DOMAIN upd \subseteq KeysOf(f) /\ Kafka!Deletion(s) \subseteq KeysOf(f)
    <3>1. s = "zoo" => l \in ServerLists
      BY <1>4, <1>6 DEF Kafka!Given
    <3> QED
      BY <1>1, <1>3, <3>1, StepKeys
  <2>3. kfConf'[f] = g
    BY <1>3, <1>5
  <2>4. ASSUME NEW j \in DOMAIN upd, j \notin td \ {k} PROVE g[j] \in {None, upd[j]}
    <3>1. j \in KeysOf(f) /\ (j = k \/ old[j] \in {None, upd[j]})
      BY <2>1, <2>2, <2>4
    <3> QED
      BY <1>3, <3>1
  <2>5. ASSUME NEW j \in Kafka!Deletion(s), j \notin td \ {k} PROVE g[j] = None
    <3>1. j \in KeysOf(f) /\ (j = k \/ old[j] = None)
      BY <2>1, <2>2, <2>5
    <3>2. s \in {"delete", "deleteZoo"}
      BY DEF Kafka!Deletion
    <3> QED
      BY <1>3, <3>1, <3>2
  <2>6. ASSUME s = "deleteZoo", NEW j \in Kafka!Peers PROVE g[j] = None
    <3>1. j \in KeysOf(f)
      BY <1>1, <2>6 DEF Kafka!File, KeysOf, ZooKeys
    <3> QED
      BY <1>3, <2>6, <3>1
  <2> QED
    BY <1>1, <2>1, <2>3, <2>4, <2>5, <2>6 DEF Kafka!EditInv
<1>9. /\ s = "zoo" => Kafka!ServerWritten(l)'
      /\ s \in {"defaultZoo", "deleteZoo"} => kfConf'.server = Kafka!Shipped.server
  BY <1>1, <1>5, <1>6 DEF Kafka!File, Kafka!ServerWritten
<1>10. ASSUME s = "delete", NEW j \in Kafka!Defaults PROVE kfConf'.server[j] = Kafka!Shipped.server[j]
  <2>1. f = "server" /\ j \in KeysOf(f) /\ j # k
    <3>1. k \in Kafka!Extra
      BY <1>1, <1>2, <1>6, <1>10 DEF Kafka!EditInv, Kafka!Deletion, Kafka!Update
    <3> QED
      BY <1>1, <1>10, <3>1 DEF Kafka!File, KeysOf, ServerKeys, Kafka!Defaults, Kafka!Extra
  <2> QED
    BY <1>1, <1>3, <1>5, <1>6, <1>10, <2>1
<1>11. ASSUME s = "deleteZoo" PROVE kfConf'.zoo[<<"dataDir">>] = "/tmp"
  <2>1. f = "zoo" /\ <<"dataDir">> \in KeysOf(f) /\ k = <<"tickTime">>
    BY <1>1, <1>2, <1>6, <1>11 DEF Kafka!EditInv, Kafka!Deletion, Kafka!Update, Kafka!File, KeysOf,
       ZooKeys
  <2>2. <<"dataDir">> # <<"tickTime">> /\ <<"dataDir">> \notin Kafka!Peers
    BY ZooKeysDiffer DEF Kafka!Peers
  <2> QED
    BY <1>1, <1>3, <1>5, <1>6, <1>11, <2>1, <2>2
<1>12. Kafka!CallInv'
  BY <1>2, <1>3, <1>6, <1>7, <1>8, <1>9, <1>10, <1>11 DEF Kafka!CallInv, Kafka!Given,
     Kafka!MyidWritten, FileSteps
<1>13. Kafka!StateInv' /\ Kafka!StartedInv'
  BY <1>2, <1>4, <1>6 DEF Kafka!StateInv, Kafka!StartedInv
<1> QED
  BY <1>5, <1>12, <1>13 DEF Kafka!KafkaInv

\* A file that is done with: the keys not found are appended.
LEMMA FinishStep ==
  ASSUME Kafka!KafkaInv, Kafka!FinishFile
  PROVE  Kafka!KafkaInv'
<1>1. PICK s, l, g, f, old, upd :
        /\ s = kfCall.step /\ l = kfCall.list /\ g = Kafka!Appended /\ f = Kafka!File(s)
        /\ old = kfConf[f] /\ upd = Kafka!Update(s, l)
  OBVIOUS
<1>2. /\ s \in FileSteps /\ kfCall.todo = {} /\ kfConf' = [kfConf EXCEPT ![f] = g]
      /\ myid' = myid /\ started' = started /\ f \in {"server", "zoo"}
  BY <1>1 DEF Kafka!FinishFile, FileSteps, Kafka!File
<1>3. Kafka!FilesInv /\ Kafka!CallInv /\ Kafka!StartedInv /\ tried \subseteq ServerLists
  BY DEF Kafka!KafkaInv, Kafka!FilesInv
<1>4. /\ kfCall = [step |-> s, list |-> l, todo |-> {}]
      /\ Kafka!EditInv(s, l, {}) /\ state.phase = "none"
      /\ s \in {"server", "zoo"} => Kafka!Given(l) /\ Kafka!MyidWritten(l)
      /\ s = "zoo" => Kafka!ServerWritten(l)
      /\ s = "delete" => \A j \in Kafka!Defaults : kfConf.server[j] = Kafka!Shipped.server[j]
      /\ s \in {"defaultZoo", "deleteZoo"} => kfConf.server = Kafka!Shipped.server
      /\ s = "deleteZoo" => kfConf.zoo[<<"dataDir">>] = "/tmp"
  BY <1>1, <1>2, <1>3 DEF Kafka!CallInv, FileSteps
<1>5. s \in {"server", "zoo"} => l \in ServerLists /\ l \in tried
  BY <1>3, <1>4 DEF Kafka!Given
<1>6. DOMAIN upd \subseteq KeysOf(f) /\ Kafka!Deletion(s) \subseteq KeysOf(f)
  BY <1>1, <1>2, <1>5, StepKeys
<1>7. /\ \A j \in DOMAIN upd : old[j] \in {None, upd[j]}
      /\ \A j \in Kafka!Deletion(s) : old[j] = None
      /\ s = "deleteZoo" => \A j \in Kafka!Peers : old[j] = None
  BY <1>1, <1>4 DEF Kafka!EditInv
<1>8. DOMAIN old = KeysOf(f)
  <2>1. PICK a, b : a = kfConf.server /\ b = kfConf.zoo
    OBVIOUS
  <2>2. a = [j \in ServerKeys |-> a[j]] /\ b = [j \in ZooKeys |-> b[j]]
    BY <1>3, <2>1 DEF Kafka!FilesInv, ServerKeys, ZooKeys
  <2>3. old = IF f = "server" THEN a ELSE b
    BY <1>1, <1>2, <2>1
  <2> QED
    BY <2>2, <2>3 DEF KeysOf
<1>9. /\ g = [j \in KeysOf(f) |-> g[j]]
      /\ \A j \in KeysOf(f) : g[j] = IF j \in DOMAIN upd THEN upd[j] ELSE old[j]
  <2>1. g = [j \in KeysOf(f) |-> IF j \in DOMAIN upd /\ old[j] = None THEN upd[j] ELSE old[j]]
    BY <1>1, <1>8 DEF Kafka!Appended
  <2> QED
    BY <1>7, <2>1
<1>10. \/ s = "deleteZoo" /\ tried' = {}
       \/ s # "deleteZoo" /\ tried' = tried
  BY <1>1 DEF Kafka!FinishFile
<1>11. ASSUME s # "deleteZoo"
       PROVE  /\ Kafka!FilesInv'
              /\ f = "server" => kfConf'.server = g /\ kfConf'.zoo = kfConf.zoo
              /\ f = "zoo" => kfConf'.zoo = g /\ kfConf'.server = kfConf.server
  <2>1. ASSUME f = "zoo", NEW i \in 1..Kafka!Longest, g[Kafka!Peer(i)] # None
        PROVE  kfConf.zoo[Kafka!Peer(i)] # None \/ \E m \in tried' : i <= Len(m)
    <3>1. Kafka!Peer(i) \in KeysOf(f)
      BY <2>1 DEF KeysOf, ZooKeys, Kafka!Peers
    <3>2. CASE Kafka!Peer(i) \notin DOMAIN upd
      BY <1>1, <1>9, <2>1, <3>1, <3>2
    <3>3. CASE Kafka!Peer(i) \in DOMAIN upd
      <4>1. s \in {"zoo", "defaultZoo"}
        BY <1>1, <1>2, <1>11, <2>1 DEF Kafka!File, FileSteps
      <4>2. s = "zoo"
        <5>1. s = "defaultZoo" => DOMAIN upd = {<<"dataDir">>}
          BY <1>1 DEF Kafka!Update
        <5> QED
          BY <3>3, <4>1, <5>1, ZooKeysDiffer
      <4>3. DOMAIN upd = {<<"dataDir">>, <<"tickTime">>} \cup {Kafka!Peer(j) : j \in 1..Len(l)}
        BY <1>1, <4>2 DEF Kafka!Update, Kafka!ZooProperties
      <4>4. PICK j \in 1..Len(l) : Kafka!Peer(i) = Kafka!Peer(j)
        BY <3>3, <4>3, ZooKeysDiffer
      <4>5. i = j
        BY <4>4, ZooKeysDiffer
      <4>6. i <= Len(l)
        BY <1>5, <4>2, <4>5, LongestList
      <4> QED
        BY <1>5, <1>10, <1>11, <4>2, <4>6
    <3> QED
      BY <3>2, <3>3
  <2> QED
    BY <1>2, <1>3, <1>9, <1>10, <1>11, <2>1, FileChanges
<1>12. ASSUME NEW t, NEW u, u = DOMAIN Kafka!Update(t, l) \cup Kafka!Deletion(t)
       PROVE  Kafka!EditInv(t, l, u)'
  <2>1. t = "deleteZoo" => <<"tickTime">> \in u
    BY <1>12 DEF Kafka!Deletion
  <2> QED
    BY <1>12, <2>1 DEF Kafka!EditInv
<1>13. Kafka!StartedInv'
  BY <1>2, <1>3 DEF Kafka!StartedInv
<1>14. CASE s = "server"
  <2>0. PICK u : u = DOMAIN Kafka!Update("zoo", l) \cup Kafka!Deletion("zoo")
    OBVIOUS
  <2>1. /\ kfCall' = [step |-> "zoo", list |-> l, todo |-> u]
        /\ state' = state /\ Kafka!EditInv("zoo", l, u)'
    BY <1>1, <1>14, <1>12, <2>0 DEF Kafka!FinishFile, Kafka!Goto
  <2>2. f = "server" /\ upd = Kafka!ServerProperties(l)
    BY <1>1, <1>14 DEF Kafka!File, Kafka!Update
  <2>3. Kafka!ServerWritten(l)'
    <3>1. /\ "broker.id" \in DOMAIN upd /\ "zookeeper.connect" \in DOMAIN upd
          /\ upd["broker.id"] = Kafka!Place(l) - 1 /\ upd["zookeeper.connect"] = l
      BY <2>2 DEF Kafka!ServerProperties
    <3> QED
      BY <1>6, <1>9, <1>11, <1>14, <2>2, <3>1 DEF Kafka!ServerWritten
  <2>4. Kafka!CallInv'
    BY <1>2, <1>4, <1>10, <1>12, <1>14, <2>1, <2>3 DEF Kafka!CallInv, Kafka!Given, Kafka!MyidWritten
  <2> QED
    BY <1>4, <1>11, <1>13, <1>14, <2>1, <2>4 DEF Kafka!KafkaInv, Kafka!StateInv
<1>15. CASE s = "zoo"
  <2>1. kfCall' = Kafka!Idle /\ state' = [phase |-> "config", list |-> l]
    BY <1>1, <1>15 DEF Kafka!FinishFile, Kafka!Done
  <2>2. f = "zoo" /\ upd = Kafka!ZooProperties(l)
    BY <1>1, <1>15 DEF Kafka!File, Kafka!Update
  <2>3. kfConf'.zoo = g /\ kfConf'.server = kfConf.server
    BY <1>11, <1>15, <2>2
  <2>4. ASSUME NEW i \in 1..Len(l) PROVE kfConf'.zoo[Kafka!Peer(i)] = l[i]
    <3>1. Kafka!Peer(i) \in DOMAIN upd
      BY <2>2 DEF Kafka!ZooProperties
    <3>2. upd[Kafka!Peer(i)] = l[i]
      BY <2>2, <3>1, ZooKeysDiffer DEF Kafka!ZooProperties
    <3> QED
      BY <1>6, <1>9, <2>3, <3>1, <3>2
  <2>5. Kafka!StateInv'
    <3>1. Kafka!Given(l)' /\ Kafka!MyidWritten(l)' /\ Kafka!ServerWritten(l)'
      BY <1>2, <1>4, <1>10, <1>15, <2>3 DEF Kafka!Given, Kafka!MyidWritten, Kafka!ServerWritten
    <3> QED
      BY <2>1, <2>4, <3>1 DEF Kafka!StateInv
  <2>6. Kafka!CallInv'
    BY <2>1, IdleEdit DEF Kafka!CallInv, Kafka!Idle
  <2> QED
    BY <1>11, <1>13, <1>15, <2>5, <2>6 DEF Kafka!KafkaInv
<1>16. CASE s = "default"
  <2>0. PICK u : u = DOMAIN Kafka!Update("delete", l) \cup Kafka!Deletion("delete")
    OBVIOUS
  <2>1. /\ kfCall' = [step |-> "delete", list |-> l, todo |-> u]
        /\ state' = state /\ Kafka!EditInv("delete", l, u)'
    BY <1>1, <1>16, <1>12, <2>0 DEF Kafka!FinishFile, Kafka!Goto
  <2>2. f = "server" /\ upd = [k \in Kafka!Defaults |-> Kafka!Shipped.server[k]]
    BY <1>1, <1>16 DEF Kafka!File, Kafka!Update
  <2>3. \A j \in Kafka!Defaults : kfConf'.server[j] = Kafka!Shipped.server[j]
    BY <1>6, <1>9, <1>11, <1>16, <2>2
  <2>4. Kafka!CallInv'
    BY <1>4, <1>12, <1>16, <2>1, <2>3 DEF Kafka!CallInv
  <2> QED
    BY <1>4, <1>11, <1>13, <1>16, <2>1, <2>4 DEF Kafka!KafkaInv, Kafka!StateInv
<1>17. CASE s = "delete"
  <2>0. PICK u : u = DOMAIN Kafka!Update("defaultZoo", l) \cup Kafka!Deletion("defaultZoo")
    OBVIOUS
  <2>1. /\ kfCall' = [step |-> "defaultZoo", list |-> l, todo |-> u]
        /\ state' = state /\ Kafka!EditInv("defaultZoo", l, u)'
    BY <1>1, <1>17, <1>12, <2>0 DEF Kafka!FinishFile, Kafka!Goto
  <2>2. f = "server" /\ DOMAIN upd = {} /\ Kafka!Deletion(s) = Kafka!Extra
    BY <1>1, <1>17 DEF Kafka!File, Kafka!Update, Kafka!Deletion
  <2>3. kfConf'.server = Kafka!Shipped.server
    <3>1. /\ DOMAIN Kafka!Shipped.server = ServerKeys
          /\ Kafka!Shipped.server = [j \in ServerKeys |-> Kafka!Shipped.server[j]]
          /\ \A j \in Kafka!Extra : Kafka!Shipped.server[j] = None
      BY DEF Kafka!Shipped, ServerKeys, Kafka!Extra
    <3>2. ASSUME NEW j \in ServerKeys PROVE g[j] = Kafka!Shipped.server[j]
      <4>1. CASE j \in Kafka!Extra
        BY <1>7, <1>9, <2>2, <3>1, <4>1 DEF KeysOf
      <4>2. CASE j \in Kafka!Defaults
        BY <1>1, <1>4, <1>9, <1>17, <2>2, <4>2 DEF KeysOf
      <4> QED
        BY <4>1, <4>2 DEF ServerKeys
    <3>3. g = [j \in ServerKeys |-> g[j]]
      BY <1>9, <2>2 DEF KeysOf
    <3> QED
      BY <1>11, <1>17, <2>2, <3>1, <3>2, <3>3
  <2>4. Kafka!CallInv'
    BY <1>4, <1>12, <1>17, <2>1, <2>3 DEF Kafka!CallInv
  <2> QED
    BY <1>4, <1>11, <1>13, <1>17, <2>1, <2>4 DEF Kafka!KafkaInv, Kafka!StateInv
<1>18. CASE s = "defaultZoo"
  <2>0. PICK u : u = DOMAIN Kafka!Update("deleteZoo", l) \cup Kafka!Deletion("deleteZoo")
    OBVIOUS
  <2>1. /\ kfCall' = [step |-> "deleteZoo", list |-> l, todo |-> u]
        /\ state' = state /\ Kafka!EditInv("deleteZoo", l, u)'
    BY <1>1, <1>18, <1>12, <2>0 DEF Kafka!FinishFile, Kafka!Goto
  <2>2. f = "zoo" /\ DOMAIN upd = {<<"dataDir">>} /\ upd[<<"dataDir">>] = "/tmp"
    BY <1>1, <1>18 DEF Kafka!File, Kafka!Update
  <2>3. /\ kfConf'.server = Kafka!Shipped.server
        /\ kfConf'.zoo[<<"dataDir">>] = "/tmp"
    BY <1>4, <1>6, <1>9, <1>11, <1>18, <2>2
  <2>4. Kafka!CallInv'
    BY <1>4, <1>12, <1>18, <2>1, <2>3 DEF Kafka!CallInv
  <2> QED
    BY <1>4, <1>11, <1>13, <1>18, <2>1, <2>4 DEF Kafka!KafkaInv, Kafka!StateInv
<1>19. CASE s = "deleteZoo"
  <2>1. kfCall' = Kafka!Idle /\ state' = [phase |-> "cleanup", list |-> l] /\ tried' = {}
    BY <1>1, <1>19 DEF Kafka!FinishFile, Kafka!Done
  <2>2. f = "zoo" /\ DOMAIN upd = {} /\ Kafka!Deletion(s) = {<<"tickTime">>}
    BY <1>1, <1>19 DEF Kafka!File, Kafka!Update, Kafka!Deletion
  <2>3. /\ g = [j \in ZooKeys |-> IF j = <<"dataDir">> THEN "/tmp" ELSE None]
    <3>1. ASSUME NEW j \in ZooKeys PROVE g[j] = IF j = <<"dataDir">> THEN "/tmp" ELSE None
      <4>1. g[j] = old[j]
        BY <1>9, <2>2 DEF KeysOf
      <4>2. CASE j = <<"dataDir">>
        BY <1>1, <1>4, <1>19, <2>2, <4>1, <4>2
      <4>3. CASE j # <<"dataDir">>
        BY <1>7, <1>19, <2>2, <4>1, <4>3 DEF ZooKeys
      <4> QED
        BY <4>2, <4>3
    <3> QED
      BY <1>9, <2>2, <3>1 DEF KeysOf
  <2>4. kfConf' = Kafka!Shipped
    <3>1. PICK a, b : a = kfConf.server /\ b = kfConf.zoo
      OBVIOUS
    <3>2. kfConf = [server |-> a, zoo |-> b]
      BY <1>3, <3>1 DEF Kafka!FilesInv
    <3>3. kfConf' = [server |-> a, zoo |-> g]
      BY <1>2, <2>2, <3>2
    <3>4. PICK c, d : c = Kafka!Shipped.server /\ d = Kafka!Shipped.zoo
      OBVIOUS
    <3>5. Kafka!Shipped = [server |-> c, zoo |-> d]
      BY <3>4 DEF Kafka!Shipped
    <3>6. d = g
      BY <2>3, <3>4 DEF Kafka!Shipped, ZooKeys
    <3> QED
      BY <1>4, <1>19, <3>1, <3>3, <3>4, <3>5, <3>6
  <2>5. Kafka!FilesInv'
    BY <2>1, <2>4, ShippedFiles DEF Kafka!FilesInv
  <2>6. Kafka!CallInv' /\ Kafka!StateInv'
    BY <2>1, <2>4, IdleEdit DEF Kafka!CallInv, Kafka!StateInv, Kafka!Idle
  <2> QED
    BY <1>13, <2>5, <2>6 DEF Kafka!KafkaInv
<1> QED
  BY <1>2, <1>14, <1>15, <1>16, <1>17, <1>18, <1>19 DEF FileSteps

\* The start of a phase: config, init, reset or cleanup; or it raises at once.
LEMMA PhaseBegins ==
  ASSUME Kafka!KafkaInv,
         \/ \E l \in ServerLists : Kafka!Config(l) \/ Kafka!ValidateFails(l) \/ Kafka!StartZookeeper(l)
         \/ Kafka!Reset \/ Kafka!Cleanup
  PROVE  Kafka!KafkaInv'
<1>1. Kafka!FilesInv /\ Kafka!CallInv /\ Kafka!StateInv /\ Kafka!StartedInv
  BY DEF Kafka!KafkaInv
<1>2. ASSUME NEW l \in ServerLists, Kafka!Config(l) PROVE Kafka!KafkaInv'
  <2>1. /\ kfCall' = [step |-> "myid", list |-> l, todo |-> {}]
        /\ tried' = tried \cup {l} /\ Kafka!Member(l)
        /\ state' = [phase |-> "none", list |-> <<>>]
        /\ kfConf' = kfConf /\ myid' = myid /\ started' = started
    BY <1>2 DEF Kafka!Config, Kafka!Enter, Kafka!Update
  <2>2. Kafka!FilesInv'
    BY <1>1, <2>1 DEF Kafka!FilesInv
  <2>3. Kafka!CallInv'
    BY <2>1, IdleEdit DEF Kafka!CallInv, Kafka!Given
  <2> QED
    BY <1>1, <2>1, <2>2, <2>3 DEF Kafka!KafkaInv, Kafka!StateInv, Kafka!StartedInv
<1>3. ASSUME NEW l \in ServerLists, Kafka!ValidateFails(l) PROVE Kafka!KafkaInv'
  <2>1. UNCHANGED <<kfConf, myid, started, kfCall, tried, state>>
    BY <1>3 DEF Kafka!ValidateFails
  <2> QED
    BY <2>1, NodeRests
<1>4. ASSUME NEW l \in ServerLists, Kafka!StartZookeeper(l) PROVE Kafka!KafkaInv'
  <2>1. /\ kfCall' = [step |-> "kafka", list |-> l, todo |-> {}]
        /\ UNCHANGED <<kfConf, myid, started, tried, state>>
    BY <1>4 DEF Kafka!StartZookeeper, Kafka!Enter, Kafka!Update
  <2>2. Kafka!CallInv'
    BY <2>1, IdleEdit DEF Kafka!CallInv
  <2> QED
    BY <2>1, <2>2, FilesRest
<1>5. CASE Kafka!Reset
  <2>1. /\ kfCall' = [step |-> "idle", list |-> <<>>, todo |-> {}]
        /\ state' = [phase |-> "none", list |-> <<>>]
        /\ UNCHANGED <<kfConf, started, tried>>
    BY <1>5 DEF Kafka!Reset, Kafka!Enter, Kafka!Update
  <2>2. Kafka!CallInv'
    BY <2>1, IdleEdit DEF Kafka!CallInv
  <2> QED
    BY <1>1, <2>1, <2>2 DEF Kafka!KafkaInv, Kafka!FilesInv, Kafka!StateInv, Kafka!StartedInv
<1>6. CASE Kafka!Cleanup
  <2>0. PICK u : u = DOMAIN Kafka!Update("default", <<>>)
    OBVIOUS
  <2>1. /\ kfCall' = [step |-> "default", list |-> <<>>, todo |-> u]
        /\ state' = [phase |-> "none", list |-> <<>>]
        /\ UNCHANGED <<kfConf, started, tried>>
    BY <1>6, <2>0 DEF Kafka!Cleanup, Kafka!Enter
  <2>2. Kafka!EditInv("default", <<>>, u)'
    BY <2>0 DEF Kafka!EditInv, Kafka!Deletion
  <2>3. Kafka!CallInv'
    BY <2>1, <2>2 DEF Kafka!CallInv
  <2> QED
    BY <1>1, <2>1, <2>3 DEF Kafka!KafkaInv, Kafka!FilesInv, Kafka!StateInv, Kafka!StartedInv
<1> QED
  BY <1>2, <1>3, <1>4, <1>5, <1>6

\* config writes myid, and init starts the broker.
LEMMA KafkaNodeStep ==
  ASSUME Kafka!KafkaInv, Kafka!WriteMyid \/ Kafka!StartKafka
  PROVE  Kafka!KafkaInv'
<1>1. Kafka!FilesInv /\ Kafka!CallInv /\ Kafka!StateInv /\ Kafka!StartedInv
  BY DEF Kafka!KafkaInv
<1>2. CASE Kafka!WriteMyid
  <2>1. PICK l, u : l = kfCall.list /\ u = DOMAIN Kafka!Update("server", l) \cup Kafka!Deletion("server")
    OBVIOUS
  <2>2. /\ myid' = IF Len(l) > 1 THEN Kafka!Place(l) ELSE myid
        /\ kfCall' = [step |-> "server", list |-> l, todo |-> u]
        /\ UNCHANGED <<kfConf, started, tried, state>>
        /\ kfCall.step = "myid"
    BY <1>2, <2>1 DEF Kafka!WriteMyid, Kafka!Goto, Kafka!At
  <2>3. state.phase = "none" /\ Kafka!Given(l)
    BY <1>1, <2>1, <2>2 DEF Kafka!CallInv
  <2>4. Kafka!EditInv("server", l, u)'
    BY <2>1 DEF Kafka!EditInv
  <2>5. Kafka!CallInv'
    BY <2>2, <2>3, <2>4 DEF Kafka!CallInv, Kafka!Given, Kafka!MyidWritten
  <2> QED
    BY <1>1, <2>2, <2>3, <2>5 DEF Kafka!KafkaInv, Kafka!FilesInv, Kafka!StateInv, Kafka!StartedInv
<1>3. CASE Kafka!StartKafka
  <2>1. PICK b : b = [id |-> kfConf.server["broker.id"],
                      list |-> IF state.phase = "config" THEN state.list ELSE <<>>]
    OBVIOUS
  <2>2. /\ started' = b /\ kfCall' = [step |-> "idle", list |-> <<>>, todo |-> {}]
        /\ UNCHANGED <<kfConf, myid, tried, state>>
    BY <1>3, <2>1 DEF Kafka!StartKafka, Kafka!Idle
  <2>3. b.list # <<>> => Kafka!Member(b.list) /\ b.id = Kafka!Place(b.list) - 1
    BY <1>1, <2>1 DEF Kafka!StateInv, Kafka!Given, Kafka!ServerWritten
  <2>4. Kafka!CallInv'
    BY <2>2, IdleEdit DEF Kafka!CallInv
  <2>5. Kafka!FilesInv' /\ Kafka!StartedInv'
    BY <1>1, <2>2, <2>3 DEF Kafka!FilesInv, Kafka!StartedInv
  <2>6. Kafka!StateInv'
    BY <1>1, <2>2 DEF Kafka!StateInv, Kafka!Given, Kafka!MyidWritten, Kafka!ServerWritten
  <2> QED
    BY <2>4, <2>5, <2>6 DEF Kafka!KafkaInv
<1> QED
  BY <1>2, <1>3

\* A phase that ends early: what a rewrite has lost is missed by no completed phase.
LEMMA PhaseFails ==
  ASSUME Kafka!KafkaInv, Kafka!Fail
  PROVE  Kafka!KafkaInv'
<1>1. Kafka!FilesInv /\ Kafka!CallInv /\ Kafka!StateInv /\ Kafka!StartedInv
  BY DEF Kafka!KafkaInv
<1>2. /\ kfCall' = [step |-> "idle", list |-> <<>>, todo |-> {}]
      /\ UNCHANGED <<started, tried, state>>
  BY DEF Kafka!Fail, Kafka!Idle
<1>3. Kafka!CallInv'
  BY <1>2, IdleEdit DEF Kafka!CallInv
<1>4. CASE UNCHANGED <<kfConf, myid>>
  BY <1>2, <1>3, <1>4, FilesRest
<1>5. CASE kfCall.step = "myid" /\ UNCHANGED kfConf
  <2>1. state.phase = "none"
    BY <1>1, <1>5 DEF Kafka!CallInv
  <2> QED
    BY <1>1, <1>2, <1>3, <1>5, <2>1 DEF Kafka!KafkaInv, Kafka!FilesInv, Kafka!StateInv, Kafka!StartedInv
<1>6. ASSUME kfCall.todo # {}, NEW cut \in KafkaCuts[Kafka!File(kfCall.step)],
             kfConf' = [kfConf EXCEPT ![Kafka!File(kfCall.step)] =
               [k \in DOMAIN @ |-> IF k \in cut THEN None
                                   ELSE Kafka!Rewritten(Kafka!NextKey(kfCall.todo), Kafka!Peers)[k]]],
             myid' = myid
      PROVE  Kafka!KafkaInv'
  <2>1. PICK s, f, k, g, old :
          /\ s = kfCall.step /\ f = Kafka!File(s) /\ k = Kafka!NextKey(kfCall.todo)
          /\ g = Kafka!Rewritten(k, Kafka!Peers) /\ old = kfConf[f]
    OBVIOUS
  <2>2. k \in kfCall.todo
    BY <1>6, <2>1 DEF Kafka!NextKey
  <2>3. /\ s \in FileSteps /\ f \in {"server", "zoo"}
        /\ DOMAIN old = KeysOf(f)
        /\ \A j \in KeysOf(f) : g[j] # None => old[j] # None
    BY <2>1, <2>2, KeyRewritten
  <2>4. PICK h : h = [j \in KeysOf(f) |-> IF j \in cut THEN None ELSE g[j]]
    OBVIOUS
  <2>5. kfConf' = [kfConf EXCEPT ![f] = h]
    <3>1. PICK a, b : a = kfConf.server /\ b = kfConf.zoo
      OBVIOUS
    <3>2. kfConf = [server |-> a, zoo |-> b]
      BY <1>1, <3>1 DEF Kafka!FilesInv
    <3>3. kfConf' = [kfConf EXCEPT ![f] = [j \in DOMAIN @ |-> IF j \in cut THEN None ELSE g[j]]]
      BY <1>6, <2>1
    <3>4. kfConf' = [kfConf EXCEPT ![f] = [j \in DOMAIN old |-> IF j \in cut THEN None ELSE g[j]]]
      BY <2>1, <2>3, <3>2, <3>3
    <3> QED
      BY <2>3, <2>4, <3>4
  <2>6. /\ h = [j \in KeysOf(f) |-> h[j]]
        /\ \A j \in KeysOf(f) : h[j] # None => old[j] # None
    BY <2>3, <2>4
  <2>7. Kafka!FilesInv'
    <3>1. ASSUME f = "zoo", NEW i \in 1..Kafka!Longest, h[Kafka!Peer(i)] # None
          PROVE  kfConf.zoo[Kafka!Peer(i)] # None
      <4>1. Kafka!Peer(i) \in KeysOf(f)
        BY <3>1 DEF KeysOf, ZooKeys, Kafka!Peers
      <4> QED
        BY <2>1, <2>6, <3>1, <4>1
    <3>2. tried' \subseteq ServerLists /\ tried \subseteq tried'
      BY <1>1, <1>2 DEF Kafka!FilesInv
    <3> QED
      BY <1>1, <2>3, <2>5, <2>6, <3>1, <3>2, FileChanges
  <2>8. state.phase = "none"
    BY <1>1, <2>1, <2>3 DEF Kafka!CallInv, FileSteps
  <2> QED
    BY <1>1, <1>2, <1>3, <2>7, <2>8 DEF Kafka!KafkaInv, Kafka!StateInv, Kafka!StartedInv
<1> QED
  BY <1>4, <1>5, <1>6 DEF Kafka!Fail, Kafka!At

(* Whatever phases were run before, and wherever they were cut short,      *)
(* within a rewrite too: a node on which config completed names the        *)
(* servers of its list and itself as the list does, a broker that was      *)
(* started has the id of its place, and a cleanup puts back every key that *)
(* phases write (kafka.py).                                                *)
THEOREM KafkaCorrect == Spec => []SetupConsistent
<1> DEFINE Inv == part = "kafka" => Kafka!KafkaInv
<1>1. ASSUME Init PROVE Inv
  <2>1. /\ kfConf = Kafka!Shipped /\ started = None /\ tried = {}
        /\ kfCall = [step |-> "idle", list |-> <<>>, todo |-> {}]
        /\ state = [phase |-> "cleanup", list |-> <<>>]
    BY <1>1 DEF Init, Kafka!Init, Kafka!Idle
  <2>2. Kafka!FilesInv
    BY <2>1, ShippedFiles DEF Kafka!FilesInv
  <2>3. Kafka!CallInv
    BY <2>1, IdleEdit DEF Kafka!CallInv
  <2> QED
    BY <2>1, <2>2, <2>3 DEF Kafka!KafkaInv, Kafka!StateInv, Kafka!StartedInv
<1>2. ASSUME Inv, [Next]_vars PROVE Inv'
  <2>1. ASSUME Kafka!KafkaInv, Kafka!Next PROVE Kafka!KafkaInv'
    BY <2>1, PhaseBegins, KafkaNodeStep, RewriteStep, FinishStep, PhaseFails DEF Kafka!Next
  <2>2. CASE part = "kafka" /\ Kafka!Next /\ part' = part
    BY <1>2, <2>1, <2>2
  <2>3. CASE part' = part /\ UNCHANGED <<kfConf, myid, started, kfCall, tried, state>>
    BY <1>2, <2>3, NodeRests
  <2>4. CASE part # "kafka" /\ part' = part
    BY <2>4
  <2> QED
    BY <1>2, <2>2, <2>3, <2>4 DEF Next, vars, kafkaVars
<1>3. Inv => SetupConsistent
  <2>1. SUFFICES ASSUME Kafka!KafkaInv PROVE Kafka!SetupConsistent
    BY DEF SetupConsistent
  <2>2. Kafka!FilesInv /\ Kafka!StateInv /\ Kafka!StartedInv
    BY <2>1 DEF Kafka!KafkaInv
  <2>3. ASSUME NEW l \in ServerLists, Kafka!Configured(l)
        PROVE  Kafka!SaysOf(l)
    <3>1. /\ Kafka!Member(l) /\ Kafka!MyidWritten(l) /\ Kafka!ServerWritten(l)
          /\ \A i \in 1..Len(l) : kfConf.zoo[Kafka!Peer(i)] = l[i]
      BY <2>2, <2>3 DEF Kafka!Configured, Kafka!StateInv, Kafka!Given
    <3>2. Kafka!Place(l) \in 1..Len(l) /\ l[Kafka!Place(l)] = KafkaHost
      BY <3>1, PlaceInList
    <3>3. /\ kfConf.server["broker.id"] + 1 = Kafka!Place(l)
          /\ kfConf.server["zookeeper.connect"] = l
      BY <3>1, <3>2, KafkaAssumption DEF Kafka!ServerWritten
    <3>4. ASSUME NEW i \in 1..Kafka!Longest, ~(i <= Len(l)) PROVE kfConf.zoo[Kafka!Peer(i)] = None
      <4>1. ASSUME NEW m \in tried PROVE ~(i <= Len(m))
        <5>1. Len(m) \in Nat /\ Len(l) \in Nat /\ Len(m) <= Len(l)
          BY <2>2, <2>3, KafkaAssumption DEF Kafka!Configured, Kafka!FilesInv
        <5> QED
          BY <3>4, <5>1, LongestList
      <4> QED
        BY <2>2, <4>1 DEF Kafka!FilesInv
    <3>5. ASSUME NEW i \in 1..Kafka!Longest, i <= Len(l) PROVE kfConf.zoo[Kafka!Peer(i)] = l[i]
      BY <3>1, <3>5, LongestList
    <3> QED
      BY <3>1, <3>2, <3>3, <3>4, <3>5 DEF Kafka!SaysOf, Kafka!MyidWritten
  <2>4. ASSUME started # None, started.list # <<>> PROVE started.list[started.id + 1] = KafkaHost
    <3>1. Kafka!Member(started.list) /\ started.id = Kafka!Place(started.list) - 1
      BY <2>2, <2>4 DEF Kafka!StartedInv
    <3> QED
      BY <3>1, PlaceInList
  <2>5. state.phase = "cleanup" => kfConf = Kafka!Shipped
    BY <2>2 DEF Kafka!StateInv
  <2> QED
    BY <2>3, <2>4, <2>5 DEF Kafka!SetupConsistent
<1> QED
  BY <1>1, <1>2, <1>3, PTL DEF Spec

-----------------------------------------------------------------------------
(* Consul: the phases of a node touch no other node, so a step of n keeps  *)
(* the invariant when the values that it gives n do.                       *)

NodeType(u, h, o, c, e, us) ==
  /\ u \in ConsulUnit!Units /\ h \in [ConsulUnit!Dirs -> ConsulUnit!Files]
  /\ o \in [ConsulUnit!Dirs -> {None, "root", "consul"}]
  /\ c \in ConsulUnit!Calls /\ e \in ConsulUnit!Ends /\ us \in SUBSET ConsulUnit!Confs

NodeGets(n, u, h, o, c, e, us) ==
  /\ unit' = [unit EXCEPT ![n] = u] /\ hcl' = [hcl EXCEPT ![n] = h]
  /\ owner' = [owner EXCEPT ![n] = o] /\ csCall' = [csCall EXCEPT ![n] = c]
  /\ csDone' = [csDone EXCEPT ![n] = e] /\ used' = [used EXCEPT ![n] = us]

\* A step of one node, given by its new values.
LEMMA NodeStep ==
  ASSUME NEW n \in Node, ConsulUnit!ConsulInv,
         NEW u, NEW h, NEW o, NEW c, NEW e, NEW us,
         NodeType(u, h, o, c, e, us), NodeGets(n, u, h, o, c, e, us),
         ConsulUnit!NodeInv(n, u, h, o, c, e, us)
  PROVE  ConsulUnit!ConsulInv'
<1> USE DEF NodeType, NodeGets
<1>1. ConsulUnit!TypeOK
  BY DEF ConsulUnit!ConsulInv
<1>2. ConsulUnit!TypeOK'
  BY <1>1 DEF ConsulUnit!TypeOK
<1>3. /\ unit'[n] = u /\ hcl'[n] = h /\ owner'[n] = o
      /\ csCall'[n] = c /\ csDone'[n] = e /\ used'[n] = us
  BY <1>1 DEF ConsulUnit!TypeOK
<1>4. \A m \in Node \ {n} :
        /\ unit'[m] = unit[m] /\ hcl'[m] = hcl[m] /\ owner'[m] = owner[m]
        /\ csCall'[m] = csCall[m] /\ csDone'[m] = csDone[m] /\ used'[m] = used[m]
  BY <1>1 DEF ConsulUnit!TypeOK
<1>5. ASSUME NEW m \in Node
      PROVE  ConsulUnit!NodeInv(m, unit'[m], hcl'[m], owner'[m], csCall'[m], csDone'[m], used'[m])
  <2>1. CASE m = n
    BY <1>3, <2>1
  <2>2. CASE m # n
    BY <1>4, <2>2 DEF ConsulUnit!ConsulInv
  <2> QED
    BY <2>1, <2>2
<1> QED
  BY <1>2, <1>5 DEF ConsulUnit!ConsulInv

\* One case per action of a node.
LEMMA ConsulStep ==
  ConsulUnit!ConsulInv /\ [ConsulUnit!Next]_(ConsulUnit!vars) => ConsulUnit!ConsulInv'
<1> SUFFICES ASSUME ConsulUnit!ConsulInv, [ConsulUnit!Next]_(ConsulUnit!vars)
             PROVE  ConsulUnit!ConsulInv'
  OBVIOUS
<1>u. CASE UNCHANGED ConsulUnit!vars
  <2>1. UNCHANGED <<unit, hcl, owner, csCall, csDone, used>>
    BY <1>u DEF ConsulUnit!vars
  <2>2. ConsulUnit!TypeOK'
    BY <2>1 DEF ConsulUnit!ConsulInv, ConsulUnit!TypeOK
  <2> QED
    BY <2>1, <2>2 DEF ConsulUnit!ConsulInv
<1>n. CASE ConsulUnit!Next
  <2>1. PICK n \in Node :
          \/ \E c \in ConsulUnit!Confs : ConsulUnit!Config(n, c) \/ ConsulUnit!Cleanup(n, c)
          \/ ConsulUnit!ValidateFails(n) \/ ConsulUnit!TruncateUnit(n) \/ ConsulUnit!EditUnit(n)
          \/ ConsulUnit!OpenHcl(n) \/ ConsulUnit!WriteHcl(n) \/ ConsulUnit!ChownConfig(n)
          \/ ConsulUnit!Start(n) \/ ConsulUnit!DefaultUnit(n) \/ ConsulUnit!RemoveConfig(n)
          \/ ConsulUnit!CopyDefault(n) \/ ConsulUnit!ChownDefault(n) \/ ConsulUnit!Fail(n)
    BY <1>n DEF ConsulUnit!Next
  <2> DEFINE u == unit[n]  h == hcl[n]  o == owner[n]  c == csCall[n]  e == csDone[n]  us == used[n]
             p == ConsulPath[c.conf]
  <2>2. /\ u \in ConsulUnit!Units /\ h \in [ConsulUnit!Dirs -> ConsulUnit!Files]
        /\ o \in [ConsulUnit!Dirs -> {None, "root", "consul"}]
        /\ c \in ConsulUnit!Calls /\ e \in ConsulUnit!Ends /\ us \in SUBSET ConsulUnit!Confs
        /\ ConsulUnit!NodeInv(n, u, h, o, c, e, us)
    BY DEF ConsulUnit!ConsulInv, ConsulUnit!TypeOK
  <2>3. /\ unit = [unit EXCEPT ![n] = u] /\ hcl = [hcl EXCEPT ![n] = h]
        /\ owner = [owner EXCEPT ![n] = o] /\ csCall = [csCall EXCEPT ![n] = c]
        /\ csDone = [csDone EXCEPT ![n] = e] /\ used = [used EXCEPT ![n] = us]
    BY DEF ConsulUnit!ConsulInv, ConsulUnit!TypeOK
  <2>4. \A f \in ConsulUnit!Confs : ConsulPath[f] \in ConsulUnit!Dirs
    BY DEF ConsulUnit!Dirs
  <2>5. ConsulDefault \in ConsulUnit!Dirs
    BY DEF ConsulUnit!Dirs
  <2>6. ConsulUnit!Nothing \in ConsulUnit!Ends /\ ConsulUnit!Nothing.phase = "none"
        /\ ConsulUnit!Idle \in ConsulUnit!Calls /\ ConsulUnit!Idle.step = "idle"
    BY DEF ConsulUnit!Nothing, ConsulUnit!Ends, ConsulUnit!Idle, ConsulUnit!Calls
  <2>7. c # ConsulUnit!Idle =>
          /\ e = ConsulUnit!Nothing /\ c.conf \in ConsulUnit!Confs /\ p \in ConsulUnit!Dirs
          /\ c = [step |-> c.step, conf |-> c.conf]
    BY <2>2, <2>4 DEF ConsulUnit!NodeInv, ConsulUnit!Behind, ConsulUnit!Calls
  <2>8. c.step # "idle" => c # ConsulUnit!Idle
    BY <2>6
  <2>9. /\ None \in ConsulUnit!Files /\ ConsulUnit!Empty \in ConsulUnit!Files
        /\ ConsulUnit!DefaultFile \in ConsulUnit!Files
    BY DEF ConsulUnit!Files
  <2> USE DEF ConsulUnit!At, ConsulUnit!PathOf
  <2>goto. ASSUME NEW next \in ConsulUnit!ConfigSteps \cup ConsulUnit!CleanupSteps,
                  c # ConsulUnit!Idle, ConsulUnit!Goto(n, next)
           PROVE  /\ csCall' = [csCall EXCEPT ![n] = [step |-> next, conf |-> c.conf]]
                  /\ [step |-> next, conf |-> c.conf] \in ConsulUnit!Calls
    <3>1. [c EXCEPT !.step = next] = [step |-> next, conf |-> c.conf]
      BY <2>7, <2>goto
    <3> QED
      BY <2>7, <2>goto, <3>1 DEF ConsulUnit!Goto, ConsulUnit!Calls
  <2>c. ASSUME NEW f \in ConsulUnit!Confs, ConsulUnit!Config(n, f) PROVE ConsulUnit!ConsulInv'
    <3> DEFINE nc == [step |-> "unit", conf |-> f]
               no == [o EXCEPT ![ConsulPath[f]] = IF @ = None THEN "root" ELSE @]
    <3>1. /\ csCall' = [csCall EXCEPT ![n] = nc] /\ csDone' = [csDone EXCEPT ![n] = ConsulUnit!Nothing]
          /\ owner' = [owner EXCEPT ![n] = no] /\ used' = [used EXCEPT ![n] = us \cup {f}]
          /\ unit' = unit /\ hcl' = hcl
      BY <2>c DEF ConsulUnit!Config, ConsulUnit!Enter
    <3>2. nc \in ConsulUnit!Calls /\ no \in [ConsulUnit!Dirs -> {None, "root", "consul"}]
          /\ us \cup {f} \in SUBSET ConsulUnit!Confs
      BY <2>2, <2>4 DEF ConsulUnit!Calls, ConsulUnit!ConfigSteps
    <3>3. ConsulUnit!NodeInv(n, u, h, no, nc, ConsulUnit!Nothing, us \cup {f})
      BY <2>2, <2>6 DEF ConsulUnit!NodeInv, ConsulUnit!Behind, ConsulUnit!Completed, ConsulUnit!FilesUsed
    <3> HIDE DEF nc, no, u, h, o, c, e, us
    <3>p. NodeType(u, h, no, nc, ConsulUnit!Nothing, us \cup {f})
      BY <2>2, <2>3, <2>6, <3>1, <3>2, <3>3 DEF NodeType
    <3>q. NodeGets(n, u, h, no, nc, ConsulUnit!Nothing, us \cup {f})
      BY <2>2, <2>3, <2>6, <3>1, <3>2, <3>3 DEF NodeGets
    <3> QED
      BY <3>3, <3>p, <3>q, NodeStep
  <2>l. ASSUME NEW f \in ConsulUnit!Confs, ConsulUnit!Cleanup(n, f) PROVE ConsulUnit!ConsulInv'
    <3> DEFINE nc == [step |-> "unitDefault", conf |-> f]
    <3>1. /\ csCall' = [csCall EXCEPT ![n] = nc] /\ csDone' = [csDone EXCEPT ![n] = ConsulUnit!Nothing]
          /\ unit' = unit /\ hcl' = hcl /\ owner' = owner /\ used' = used
      BY <2>l DEF ConsulUnit!Cleanup, ConsulUnit!Enter, ConsulUnit!files
    <3>2. nc \in ConsulUnit!Calls
      BY DEF ConsulUnit!Calls, ConsulUnit!CleanupSteps
    <3>3. ConsulUnit!NodeInv(n, u, h, o, nc, ConsulUnit!Nothing, us)
      BY <2>2, <2>6 DEF ConsulUnit!NodeInv, ConsulUnit!Behind, ConsulUnit!Completed,
                        ConsulUnit!FilesUsed, ConsulUnit!ConfigSteps
    <3> HIDE DEF nc, u, h, o, c, e, us
    <3>p. NodeType(u, h, o, nc, ConsulUnit!Nothing, us)
      BY <2>2, <2>3, <2>6, <3>1, <3>2, <3>3 DEF NodeType
    <3>q. NodeGets(n, u, h, o, nc, ConsulUnit!Nothing, us)
      BY <2>2, <2>3, <2>6, <3>1, <3>2, <3>3 DEF NodeGets
    <3> QED
      BY <3>3, <3>p, <3>q, NodeStep
  <2>v. CASE ConsulUnit!ValidateFails(n)
    <3>1. UNCHANGED <<unit, hcl, owner, csCall, csDone, used>>
      BY <2>v DEF ConsulUnit!ValidateFails, ConsulUnit!files
    <3> HIDE DEF u, h, o, c, e, us
    <3>p. NodeType(u, h, o, c, e, us)
      BY <2>2, <2>3, <2>6, <3>1 DEF NodeType
    <3>q. NodeGets(n, u, h, o, c, e, us)
      BY <2>2, <2>3, <2>6, <3>1 DEF NodeGets
    <3> QED
      BY <2>2, <3>p, <3>q, NodeStep
  <2>s. CASE ConsulUnit!Start(n)
    <3>1. UNCHANGED <<unit, hcl, owner, csCall, csDone, used>>
      BY <2>s DEF ConsulUnit!Start, ConsulUnit!files
    <3> HIDE DEF u, h, o, c, e, us
    <3>p. NodeType(u, h, o, c, e, us)
      BY <2>2, <2>3, <2>6, <3>1 DEF NodeType
    <3>q. NodeGets(n, u, h, o, c, e, us)
      BY <2>2, <2>3, <2>6, <3>1 DEF NodeGets
    <3> QED
      BY <2>2, <3>p, <3>q, NodeStep
  <2>f. CASE ConsulUnit!Fail(n)
    <3>1. /\ UNCHANGED <<unit, hcl, owner, csDone, used>>
          /\ csCall' = [csCall EXCEPT ![n] = ConsulUnit!Idle]
      BY <2>f DEF ConsulUnit!Fail, ConsulUnit!files
    <3>2. ConsulUnit!NodeInv(n, u, h, o, ConsulUnit!Idle, e, us)
      BY <2>2, <2>6 DEF ConsulUnit!NodeInv, ConsulUnit!Behind, ConsulUnit!ConfigSteps
    <3> HIDE DEF u, h, o, c, e, us
    <3>p. NodeType(u, h, o, ConsulUnit!Idle, e, us)
      BY <2>2, <2>3, <2>6, <3>1, <3>2 DEF NodeType
    <3>q. NodeGets(n, u, h, o, ConsulUnit!Idle, e, us)
      BY <2>2, <2>3, <2>6, <3>1, <3>2 DEF NodeGets
    <3> QED
      BY <3>2, <3>p, <3>q, NodeStep
  <2>t. CASE ConsulUnit!TruncateUnit(n)
    <3>1. /\ unit' = [unit EXCEPT ![n] = ConsulUnit!Torn]
          /\ UNCHANGED <<hcl, owner, csDone, used>>
          /\ c.step \in {"unit", "unitDefault"} /\ c # ConsulUnit!Idle
      BY <2>t, <2>8 DEF ConsulUnit!TruncateUnit
    <3>2. PICK next \in {"unitWrite", "defaultWrite", "verifyFails", "remove"} :
            /\ ConsulUnit!Goto(n, next)
            /\ next \in {"unitWrite", "verifyFails"} => c.step = "unit"
      BY <2>t DEF ConsulUnit!TruncateUnit
    <3> DEFINE nc == [step |-> next, conf |-> c.conf]
    <3>3. csCall' = [csCall EXCEPT ![n] = nc] /\ nc \in ConsulUnit!Calls
      BY <2>goto, <3>1, <3>2 DEF ConsulUnit!ConfigSteps, ConsulUnit!CleanupSteps
    <3>4. ConsulUnit!Torn \in ConsulUnit!Units
      BY DEF ConsulUnit!Units
    <3>5. ConsulUnit!NodeInv(n, ConsulUnit!Torn, h, o, nc, e, us)
      BY <2>2, <2>6, <2>7, <3>1, <3>2 DEF ConsulUnit!NodeInv, ConsulUnit!Behind, ConsulUnit!Completed,
                        ConsulUnit!ConfigSteps
    <3> HIDE DEF nc, u, h, o, c, e, us
    <3>p. NodeType(ConsulUnit!Torn, h, o, nc, e, us)
      BY <2>2, <2>3, <2>6, <3>1, <3>3, <3>4, <3>5 DEF NodeType
    <3>q. NodeGets(n, ConsulUnit!Torn, h, o, nc, e, us)
      BY <2>2, <2>3, <2>6, <3>1, <3>3, <3>4, <3>5 DEF NodeGets
    <3> QED
      BY <3>5, <3>p, <3>q, NodeStep
  <2>e. CASE ConsulUnit!EditUnit(n)
    <3> DEFINE nu == [dir |-> p, user |-> "root"]  nc == [step |-> "open", conf |-> c.conf]
    <3>1. /\ unit' = [unit EXCEPT ![n] = nu] /\ UNCHANGED <<hcl, owner, csDone, used>>
          /\ c.step = "unitWrite" /\ c # ConsulUnit!Idle /\ ConsulUnit!Goto(n, "open")
      BY <2>e, <2>8 DEF ConsulUnit!EditUnit
    <3>2. csCall' = [csCall EXCEPT ![n] = nc] /\ nc \in ConsulUnit!Calls
      BY <2>goto, <3>1 DEF ConsulUnit!ConfigSteps, ConsulUnit!CleanupSteps
    <3>3. nu \in ConsulUnit!Units
      BY <2>7, <3>1 DEF ConsulUnit!Units
    <3>4. ConsulUnit!NodeInv(n, nu, h, o, nc, e, us)
      BY <2>2, <2>6, <2>7, <3>1 DEF ConsulUnit!NodeInv, ConsulUnit!Behind, ConsulUnit!Completed,
                        ConsulUnit!ConfigSteps
    <3> HIDE DEF nc, nu, u, h, o, c, e, us
    <3>p. NodeType(nu, h, o, nc, e, us)
      BY <2>2, <2>3, <2>6, <3>1, <3>2, <3>3, <3>4 DEF NodeType
    <3>q. NodeGets(n, nu, h, o, nc, e, us)
      BY <2>2, <2>3, <2>6, <3>1, <3>2, <3>3, <3>4 DEF NodeGets
    <3> QED
      BY <3>4, <3>p, <3>q, NodeStep
  <2>o. CASE ConsulUnit!OpenHcl(n)
    <3> DEFINE nh == [h EXCEPT ![p] = ConsulUnit!Empty]  nc == [step |-> "write", conf |-> c.conf]
    <3>1. /\ hcl' = [hcl EXCEPT ![n] = nh] /\ UNCHANGED <<unit, owner, csDone, used>>
          /\ c.step = "open" /\ c # ConsulUnit!Idle /\ ConsulUnit!Goto(n, "write")
      BY <2>o, <2>8 DEF ConsulUnit!OpenHcl
    <3>2. csCall' = [csCall EXCEPT ![n] = nc] /\ nc \in ConsulUnit!Calls
      BY <2>goto, <3>1 DEF ConsulUnit!ConfigSteps, ConsulUnit!CleanupSteps
    <3>3. nh \in [ConsulUnit!Dirs -> ConsulUnit!Files]
      BY <2>2, <2>9
    <3>4. ConsulUnit!NodeInv(n, u, nh, o, nc, e, us)
      BY <2>2, <2>6, <2>7, <3>1 DEF ConsulUnit!NodeInv, ConsulUnit!Behind, ConsulUnit!Completed,
                        ConsulUnit!ConfigSteps, ConsulUnit!FilesUsed
    <3> HIDE DEF nc, nh, u, h, o, c, e, us
    <3>p. NodeType(u, nh, o, nc, e, us)
      BY <2>2, <2>3, <2>6, <3>1, <3>2, <3>3, <3>4 DEF NodeType
    <3>q. NodeGets(n, u, nh, o, nc, e, us)
      BY <2>2, <2>3, <2>6, <3>1, <3>2, <3>3, <3>4 DEF NodeGets
    <3> QED
      BY <3>4, <3>p, <3>q, NodeStep
  <2>w. CASE ConsulUnit!WriteHcl(n)
    <3> DEFINE nh == [h EXCEPT ![p] = ConsulUnit!Content(n, c.conf)]
               nc == [step |-> "chown", conf |-> c.conf]
    <3>1. /\ hcl' = [hcl EXCEPT ![n] = nh] /\ UNCHANGED <<unit, owner, csDone, used>>
          /\ c.step = "write" /\ c # ConsulUnit!Idle /\ ConsulUnit!Goto(n, "chown")
      BY <2>w, <2>8 DEF ConsulUnit!WriteHcl
    <3>2. csCall' = [csCall EXCEPT ![n] = nc] /\ nc \in ConsulUnit!Calls
      BY <2>goto, <3>1 DEF ConsulUnit!ConfigSteps, ConsulUnit!CleanupSteps
    <3>3. nh \in [ConsulUnit!Dirs -> ConsulUnit!Files]
      BY <2>2, <2>7, <3>1 DEF ConsulUnit!Files
    <3>4. ConsulUnit!NodeInv(n, u, nh, o, nc, e, us)
      BY <2>2, <2>6, <2>7, <3>1 DEF ConsulUnit!NodeInv, ConsulUnit!Behind, ConsulUnit!Completed,
                        ConsulUnit!ConfigSteps, ConsulUnit!FilesUsed
    <3> HIDE DEF nc, nh, u, h, o, c, e, us
    <3>p. NodeType(u, nh, o, nc, e, us)
      BY <2>2, <2>3, <2>6, <3>1, <3>2, <3>3, <3>4 DEF NodeType
    <3>q. NodeGets(n, u, nh, o, nc, e, us)
      BY <2>2, <2>3, <2>6, <3>1, <3>2, <3>3, <3>4 DEF NodeGets
    <3> QED
      BY <3>4, <3>p, <3>q, NodeStep
  <2>h. CASE ConsulUnit!ChownConfig(n)
    <3> DEFINE no == [o EXCEPT ![p] = "root"]  ne == [phase |-> "config", conf |-> c.conf]
    <3>1. /\ owner' = [owner EXCEPT ![n] = no] /\ UNCHANGED <<unit, hcl, used>>
          /\ c.step = "chown" /\ c # ConsulUnit!Idle
          /\ csDone' = [csDone EXCEPT ![n] = ne] /\ csCall' = [csCall EXCEPT ![n] = ConsulUnit!Idle]
      BY <2>h, <2>8 DEF ConsulUnit!ChownConfig, ConsulUnit!Complete
    <3>2. ne \in ConsulUnit!Ends
      BY <2>7, <3>1 DEF ConsulUnit!Ends
    <3>3. no \in [ConsulUnit!Dirs -> {None, "root", "consul"}]
      BY <2>2
    <3>4. ConsulUnit!NodeInv(n, u, h, no, ConsulUnit!Idle, ne, us)
      BY <2>2, <2>6, <2>7, <3>1 DEF ConsulUnit!NodeInv, ConsulUnit!Behind, ConsulUnit!Completed,
                        ConsulUnit!ConfigSteps
    <3> HIDE DEF no, ne, u, h, o, c, e, us
    <3>p. NodeType(u, h, no, ConsulUnit!Idle, ne, us)
      BY <2>2, <2>3, <2>6, <3>1, <3>2, <3>3, <3>4 DEF NodeType
    <3>q. NodeGets(n, u, h, no, ConsulUnit!Idle, ne, us)
      BY <2>2, <2>3, <2>6, <3>1, <3>2, <3>3, <3>4 DEF NodeGets
    <3> QED
      BY <3>4, <3>p, <3>q, NodeStep
  <2>d. CASE ConsulUnit!DefaultUnit(n)
    <3> DEFINE nu == ConsulUnit!DefaultUnitFile  nc == [step |-> "remove", conf |-> c.conf]
    <3>1. /\ unit' = [unit EXCEPT ![n] = nu] /\ UNCHANGED <<hcl, owner, csDone, used>>
          /\ c.step = "defaultWrite" /\ c # ConsulUnit!Idle /\ ConsulUnit!Goto(n, "remove")
      BY <2>d, <2>8 DEF ConsulUnit!DefaultUnit, ConsulUnit!DefaultUnitFile
    <3>2. csCall' = [csCall EXCEPT ![n] = nc] /\ nc \in ConsulUnit!Calls
      BY <2>goto, <3>1 DEF ConsulUnit!ConfigSteps, ConsulUnit!CleanupSteps
    <3>3. nu \in ConsulUnit!Units
      BY <2>5 DEF ConsulUnit!Units, ConsulUnit!DefaultUnitFile
    <3>4. ConsulUnit!NodeInv(n, nu, h, o, nc, e, us)
      BY <2>2, <2>6, <2>7, <3>1 DEF ConsulUnit!NodeInv, ConsulUnit!Behind, ConsulUnit!Completed,
                        ConsulUnit!ConfigSteps
    <3> HIDE DEF nc, nu, u, h, o, c, e, us
    <3>p. NodeType(nu, h, o, nc, e, us)
      BY <2>2, <2>3, <2>6, <3>1, <3>2, <3>3, <3>4 DEF NodeType
    <3>q. NodeGets(n, nu, h, o, nc, e, us)
      BY <2>2, <2>3, <2>6, <3>1, <3>2, <3>3, <3>4 DEF NodeGets
    <3> QED
      BY <3>4, <3>p, <3>q, NodeStep
  <2>r. CASE ConsulUnit!RemoveConfig(n)
    <3> DEFINE nh == [h EXCEPT ![p] = None]  no == [o EXCEPT ![p] = None]
               nc == [step |-> "copy", conf |-> c.conf]
    <3>1. /\ hcl' = [hcl EXCEPT ![n] = nh] /\ owner' = [owner EXCEPT ![n] = no]
          /\ UNCHANGED <<unit, csDone, used>>
          /\ c.step = "remove" /\ c # ConsulUnit!Idle /\ ConsulUnit!Goto(n, "copy")
      BY <2>r, <2>8 DEF ConsulUnit!RemoveConfig
    <3>2. csCall' = [csCall EXCEPT ![n] = nc] /\ nc \in ConsulUnit!Calls
      BY <2>goto, <3>1 DEF ConsulUnit!ConfigSteps, ConsulUnit!CleanupSteps
    <3>3. /\ nh \in [ConsulUnit!Dirs -> ConsulUnit!Files]
          /\ no \in [ConsulUnit!Dirs -> {None, "root", "consul"}]
      BY <2>2, <2>9
    <3>4. ConsulUnit!NodeInv(n, u, nh, no, nc, e, us)
      BY <2>2, <2>6, <2>7, <3>1 DEF ConsulUnit!NodeInv, ConsulUnit!Behind, ConsulUnit!Completed,
                        ConsulUnit!ConfigSteps, ConsulUnit!FilesUsed
    <3> HIDE DEF nc, nh, no, u, h, o, c, e, us
    <3>p. NodeType(u, nh, no, nc, e, us)
      BY <2>2, <2>3, <2>6, <3>1, <3>2, <3>3, <3>4 DEF NodeType
    <3>q. NodeGets(n, u, nh, no, nc, e, us)
      BY <2>2, <2>3, <2>6, <3>1, <3>2, <3>3, <3>4 DEF NodeGets
    <3> QED
      BY <3>4, <3>p, <3>q, NodeStep
  <2>y. CASE ConsulUnit!CopyDefault(n)
    <3> DEFINE nh == [h EXCEPT ![ConsulDefault] = ConsulUnit!DefaultFile]
               no == [o EXCEPT ![ConsulDefault] = IF @ = None THEN "root" ELSE @]
               nc == [step |-> "chownDefault", conf |-> c.conf]
    <3>1. /\ hcl' = [hcl EXCEPT ![n] = nh] /\ owner' = [owner EXCEPT ![n] = no]
          /\ UNCHANGED <<unit, csDone, used>>
          /\ c.step = "copy" /\ c # ConsulUnit!Idle /\ ConsulUnit!Goto(n, "chownDefault")
      BY <2>y, <2>8 DEF ConsulUnit!CopyDefault
    <3>2. csCall' = [csCall EXCEPT ![n] = nc] /\ nc \in ConsulUnit!Calls
      BY <2>goto, <3>1 DEF ConsulUnit!ConfigSteps, ConsulUnit!CleanupSteps
    <3>3. /\ nh \in [ConsulUnit!Dirs -> ConsulUnit!Files]
          /\ no \in [ConsulUnit!Dirs -> {None, "root", "consul"}]
      BY <2>2, <2>9
    <3>4. ConsulUnit!NodeInv(n, u, nh, no, nc, e, us)
      BY <2>2, <2>5, <2>6, <2>7, <3>1 DEF ConsulUnit!NodeInv, ConsulUnit!Behind, ConsulUnit!Completed,
                        ConsulUnit!ConfigSteps, ConsulUnit!FilesUsed
    <3> HIDE DEF nc, nh, no, u, h, o, c, e, us
    <3>p. NodeType(u, nh, no, nc, e, us)
      BY <2>2, <2>3, <2>6, <3>1, <3>2, <3>3, <3>4 DEF NodeType
    <3>q. NodeGets(n, u, nh, no, nc, e, us)
      BY <2>2, <2>3, <2>6, <3>1, <3>2, <3>3, <3>4 DEF NodeGets
    <3> QED
      BY <3>4, <3>p, <3>q, NodeStep
  <2>k. CASE ConsulUnit!ChownDefault(n)
    <3> DEFINE no == [o EXCEPT ![ConsulDefault] = "consul"]  ne == [phase |-> "cleanup", conf |-> c.conf]
               nus == {f \in us : ConsulPath[f] # p}
    <3>1. /\ owner' = [owner EXCEPT ![n] = no] /\ UNCHANGED <<unit, hcl>>
          /\ used' = [used EXCEPT ![n] = nus]
          /\ c.step = "chownDefault" /\ c # ConsulUnit!Idle
          /\ csDone' = [csDone EXCEPT ![n] = ne] /\ csCall' = [csCall EXCEPT ![n] = ConsulUnit!Idle]
      BY <2>k, <2>8 DEF ConsulUnit!ChownDefault, ConsulUnit!ChownTo, ConsulUnit!Complete
    <3>2. ne \in ConsulUnit!Ends /\ nus \in SUBSET ConsulUnit!Confs
      BY <2>2, <2>7, <3>1 DEF ConsulUnit!Ends
    <3>3. no \in [ConsulUnit!Dirs -> {None, "root", "consul"}]
      BY <2>2
    <3>4. ConsulUnit!NodeInv(n, u, h, no, ConsulUnit!Idle, ne, nus)
      BY <2>2, <2>5, <2>6, <2>7, <3>1 DEF ConsulUnit!NodeInv, ConsulUnit!Behind, ConsulUnit!Completed,
                        ConsulUnit!ConfigSteps, ConsulUnit!FilesUsed
    <3> HIDE DEF no, ne, nus, u, h, o, c, e, us
    <3>p. NodeType(u, h, no, ConsulUnit!Idle, ne, nus)
      BY <2>2, <2>3, <2>6, <3>1, <3>2, <3>3, <3>4 DEF NodeType
    <3>q. NodeGets(n, u, h, no, ConsulUnit!Idle, ne, nus)
      BY <2>2, <2>3, <2>6, <3>1, <3>2, <3>3, <3>4 DEF NodeGets
    <3> QED
      BY <3>4, <3>p, <3>q, NodeStep
  <2> QED
    BY <2>1, <2>c, <2>l, <2>v, <2>s, <2>f, <2>t, <2>e, <2>o, <2>w, <2>h, <2>d, <2>r, <2>y, <2>k
<1> QED
  BY <1>u, <1>n

\* Whatever phases of consul_setup were cut short on whatever nodes: a config or cleanup
\* that completes leaves the unit with its file and owner, servers that expect and join
\* each other, and no file that it was told to remove.
THEOREM ConsulCorrect == Spec => []UnitServed
<1> DEFINE Inv == part = "consul" => ConsulUnit!ConsulInv
<1>1. Init => Inv
  <2>1. SUFFICES ASSUME ConsulUnit!Init PROVE ConsulUnit!ConsulInv
    BY DEF Init
  <2>2. ConsulDefault \in ConsulUnit!Dirs
    BY DEF ConsulUnit!Dirs
  <2>3. ConsulUnit!TypeOK
    BY <2>1, <2>2 DEF ConsulUnit!Init, ConsulUnit!TypeOK, ConsulUnit!Units, ConsulUnit!Files,
                ConsulUnit!Calls, ConsulUnit!Ends
  <2>4. ASSUME NEW n \in Node
        PROVE  /\ csCall[n] = ConsulUnit!Idle /\ csDone[n] = ConsulUnit!Nothing
               /\ \A d \in ConsulUnit!Dirs \ {ConsulDefault} : hcl[n][d] = None
    BY <2>1 DEF ConsulUnit!Init
  <2> QED
    BY <2>3, <2>4 DEF ConsulUnit!ConsulInv, ConsulUnit!NodeInv, ConsulUnit!Behind, ConsulUnit!Completed,
                      ConsulUnit!FilesUsed, ConsulUnit!Idle, ConsulUnit!Nothing, ConsulUnit!ConfigSteps
<1>2. Inv /\ [Next]_vars => Inv'
  <2>1. [Next]_vars /\ part' = "consul" => part = "consul" /\ [ConsulUnit!Next]_(ConsulUnit!vars)
    BY DEF Next, vars, consulVars, ConsulUnit!vars
  <2> QED
    BY <2>1, ConsulStep
<1>3. ASSUME ConsulUnit!ConsulInv PROVE ConsulUnit!UnitServed
  <2>1. SUFFICES ASSUME NEW n \in Node, unit[n] # ConsulUnit!Torn PROVE ConsulUnit!Served(n)
    BY DEF ConsulUnit!UnitServed
  <2> DEFINE f == csDone[n].conf
  <2>2. \A m \in Node : /\ csDone[m] \in ConsulUnit!Ends
                        /\ ConsulUnit!Completed(m, unit[m], hcl[m], owner[m], csDone[m])
                        /\ ConsulUnit!FilesUsed(hcl[m], used[m])
    BY <1>3 DEF ConsulUnit!ConsulInv, ConsulUnit!NodeInv, ConsulUnit!TypeOK
  <2>3. csDone[n].phase \in {"config", "cleanup", "none"}
    BY <2>2 DEF ConsulUnit!Ends, ConsulUnit!Nothing
  <2>4. CASE csDone[n].phase = "config"
    <3>1. ASSUME NEW m \in Node, csDone[m] = csDone[n]
          PROVE  /\ unit[m] = [dir |-> ConsulPath[f], user |-> "root"]
                 /\ owner[m][ConsulPath[f]] = "root"
                 /\ hcl[m][ConsulPath[f]] = ConsulUnit!Content(m, f)
      <4>1. ConsulUnit!Completed(m, unit[m], hcl[m], owner[m], csDone[m])
        BY <2>2
      <4> QED
        BY <2>4, <3>1, <4>1 DEF ConsulUnit!Completed
    <3>2. ASSUME \A m \in Node : csDone[m] = csDone[n]
          PROVE  ConsulUnit!ServersFound(f) = ConsulServers[f]
      <4>1. f \in DOMAIN ConsulPath
        BY <2>2, <2>4 DEF ConsulUnit!Ends, ConsulUnit!Nothing, ConsulUnit!Confs
      <4>2. ConsulServers[f] \in SUBSET Node
        BY <4>1, ConsulAssumption
      <4>3. \A m \in Node : hcl[m][ConsulPath[f]] = ConsulUnit!Content(m, f)
        BY <3>1, <3>2
      <4>4. \A m : ConsulUnit!Content(m, f).server = (m \in ConsulServers[f])
        BY DEF ConsulUnit!Content
      <4>5. \A m \in Node : hcl[m][ConsulPath[f]].server <=> m \in ConsulServers[f]
        BY <4>3, <4>4
      <4> QED
        BY <4>2, <4>5 DEF ConsulUnit!ServersFound
    <3>3. /\ ConsulUnit!Content(n, f).expect = ConsulUnit!Cardinality(ConsulServers[f])
          /\ ConsulUnit!Content(n, f).join = ConsulServers[f] \ {n}
      BY Zenon DEF ConsulUnit!Content
    <3>4. /\ unit[n].dir = ConsulPath[f] /\ unit[n].user = "root" /\ owner[n][ConsulPath[f]] = "root"
          /\ hcl[n][ConsulPath[f]] = ConsulUnit!Content(n, f)
      BY <3>1
    <3> QED
      BY <2>4, <3>2, <3>3, <3>4 DEF ConsulUnit!Served
  <2>5. CASE csDone[n].phase = "cleanup"
    <3>1. ConsulUnit!Completed(n, unit[n], hcl[n], owner[n], csDone[n])
      BY <2>2
    <3>2. unit[n].dir = ConsulDefault /\ unit[n].user = "consul"
      BY <2>1, <2>5, <3>1 DEF ConsulUnit!Completed, ConsulUnit!DefaultUnitFile
    <3>3. hcl[n][ConsulDefault] = ConsulUnit!DefaultFile /\ owner[n][ConsulDefault] = "consul"
      BY <2>5, <3>1 DEF ConsulUnit!Completed
    <3> QED
      BY <2>2, <2>5, <3>2, <3>3 DEF ConsulUnit!Served, ConsulUnit!FilesUsed
  <2>6. CASE csDone[n].phase = "none"
    BY <2>6 DEF ConsulUnit!Served
  <2> QED
    BY <2>3, <2>4, <2>5, <2>6
<1>4. Inv => UnitServed
  BY <1>3 DEF UnitServed
<1> QED
  BY <1>1, <1>2, <1>4, PTL DEF Spec

-----------------------------------------------------------------------------
(* Elasticsearch: one case per action.                                     *)

\* What a partial write of elasticsearch.yml leaves is no text that security is set in.
LEMMA TornText ==
  /\ Elastic!Torn \in Elastic!Text /\ Elastic!Torn # None
  /\ ~Elastic!Torn.security
<1>1. Elastic!Torn \in Elastic!Text
  BY DEF Elastic!Torn, Elastic!Text
<1>2. ~Elastic!Torn.security
  BY DEF Elastic!Torn
<1> QED
  BY <1>1, <1>2, SearchAssumption

\* Every action keeps the invariant.
LEMMA SearchStep == Elastic!SearchInv /\ [Elastic!Next]_(Elastic!vars) => Elastic!SearchInv'
<1> SUFFICES ASSUME Elastic!SearchInv, [Elastic!Next]_(Elastic!vars) PROVE Elastic!SearchInv'
  OBVIOUS
<1> USE DEF Elastic!SearchInv, Elastic!TypeOK, Elastic!CopyKept, Elastic!SectionGone,
            Elastic!Whole, Elastic!Editing, Elastic!Configuring, Elastic!Complete, Elastic!Enter
<1>1. CASE Elastic!PostInstall
  BY <1>1 DEF Elastic!PostInstall
<1>2. CASE Elastic!OpenFile
  BY <1>2 DEF Elastic!OpenFile, Elastic!Text
<1>3. CASE Elastic!WriteSection
  BY <1>3 DEF Elastic!WriteSection, Elastic!Text
<1>4. CASE Elastic!Config
  BY <1>4 DEF Elastic!Config
<1>5. CASE Elastic!BeginCopy
  <2>2. CASE /\ esStep = "backup" /\ bkp' = Elastic!Torn /\ esStep' = "backing"
             /\ UNCHANGED <<plugin, esFile, rsyslog, esDone, lost, halfway, esPhases>>
    BY <2>2, TornText
  <2>3. CASE /\ esStep = "restore" /\ esFile' = Elastic!Torn /\ esStep' = "restoring"
             /\ UNCHANGED <<plugin, bkp, rsyslog, esDone, lost, halfway, esPhases>>
    BY <2>3, TornText
  <2> QED
    BY <1>5, <2>2, <2>3 DEF Elastic!BeginCopy
<1>6. CASE Elastic!EndCopy
  BY <1>6, SearchAssumption DEF Elastic!EndCopy
<1>7. CASE Elastic!Append
  BY <1>7 DEF Elastic!Append, Elastic!Text
<1>8. CASE Elastic!LoadModule
  BY <1>8 DEF Elastic!LoadModule
<1>9. CASE Elastic!Cleanup
  BY <1>9 DEF Elastic!Cleanup
<1>10. CASE Elastic!BeginPutBack
  BY <1>10, TornText DEF Elastic!BeginPutBack
<1>11. CASE Elastic!EndPutBack
  BY <1>11 DEF Elastic!EndPutBack
<1>12. CASE Elastic!DeleteBkp
  BY <1>12 DEF Elastic!DeleteBkp
<1>13. CASE Elastic!Fail
  BY <1>13 DEF Elastic!Fail
<1>14. CASE UNCHANGED Elastic!vars
  BY <1>14 DEF Elastic!vars
<1> QED
  BY <1>1, <1>2, <1>3, <1>4, <1>5, <1>6, <1>7, <1>8, <1>9, <1>10, <1>11, <1>12, <1>13, <1>14
     DEF Elastic!Next

\* Whatever phases of elasticsearch_setup run and wherever they are killed, short of
\* tearing the only copy: config and cleanup leave the whole file with the entries
\* once or not at all (elasticsearch_setup's config and cleanup).
THEOREM SearchCorrect == Spec => []EntriesOnce
<1> DEFINE Inv == part = "elastic" => Elastic!SearchInv
<1>1. Init => Inv
  <2>1. Init => Elastic!Init
    BY DEF Init
  <2>2. ASSUME Elastic!Init
        PROVE  esFile \in Elastic!Text /\ esFile.shipped /\ esFile.entries = 0
    BY <2>2 DEF Elastic!Init, Elastic!Text
  <2>3. ASSUME Elastic!Init
        PROVE  plugin /\ bkp = None /\ ~lost /\ ~halfway /\ plugin \in BOOLEAN
               /\ lost \in BOOLEAN /\ halfway \in BOOLEAN
               /\ esStep = "idle" /\ esDone = "none"
    BY <2>3 DEF Elastic!Init
  <2> QED
    BY <2>1, <2>2, <2>3 DEF Elastic!SearchInv, Elastic!TypeOK, Elastic!CopyKept,
           Elastic!SectionGone, Elastic!Editing, Elastic!Configuring
<1>2. Inv /\ [Next]_vars => Inv'
  <2>1. [Next]_vars /\ part' = "elastic" => part = "elastic" /\ [Elastic!Next]_(Elastic!vars)
    BY DEF Next, vars, searchVars, Elastic!vars
  <2> QED
    BY <2>1, SearchStep
<1>3. Inv => EntriesOnce
  BY DEF EntriesOnce, Elastic!EntriesOnce, Elastic!SearchInv, Elastic!TypeOK,
         Elastic!CopyKept, Elastic!SectionGone, Elastic!Whole, Elastic!Editing
<1> QED
  BY <1>1, <1>2, <1>3, PTL DEF Spec

-----------------------------------------------------------------------------
(* OpenLDAP: Added is a sequence of eight different entries, all of which  *)
(* a config deletes first.                                                 *)

\* The LDIF file adds eight different entries.
LEMMA AddedEntries ==
  /\ OpenLdap!Added \in Seq(OpenLdap!AddedSet)
  /\ Len(OpenLdap!Added) = 8
  /\ \A i, j \in 1..8 : OpenLdap!Added[i] = OpenLdap!Added[j] => i = j
  /\ OpenLdap!AddedSet \subseteq OpenLdap!Deleted("True")
  /\ OpenLdap!AddedSet \subseteq OpenLdap!Entry /\ "database" \in OpenLdap!Entry
  /\ "database" \notin OpenLdap!AddedSet
<1>1. /\ Len(OpenLdap!Added) = 8
      /\ OpenLdap!Added[1] = "root" /\ OpenLdap!Added[2] = "module unique"
      /\ OpenLdap!Added[3] = "overlay unique" /\ OpenLdap!Added[4] = "schema ppolicy"
      /\ OpenLdap!Added[5] = "module ppolicy" /\ OpenLdap!Added[6] = "overlay ppolicy"
      /\ OpenLdap!Added[7] = "Policies" /\ OpenLdap!Added[8] = "passwordDefault"
  BY DEF OpenLdap!Added
<1>2. OpenLdap!AddedSet = {"root", "module unique", "overlay unique", "schema ppolicy",
         "module ppolicy", "overlay ppolicy", "Policies", "passwordDefault"}
  <2>1. 1..8 = {1, 2, 3, 4, 5, 6, 7, 8}
    OBVIOUS
  <2>2. \A e : e \in OpenLdap!AddedSet <=> \E i \in {1, 2, 3, 4, 5, 6, 7, 8} : e = OpenLdap!Added[i]
    BY <2>1 DEF OpenLdap!AddedSet
  <2>3. \A e : e \in OpenLdap!AddedSet <=>
           \/ e = OpenLdap!Added[1] \/ e = OpenLdap!Added[2] \/ e = OpenLdap!Added[3]
           \/ e = OpenLdap!Added[4] \/ e = OpenLdap!Added[5] \/ e = OpenLdap!Added[6]
           \/ e = OpenLdap!Added[7] \/ e = OpenLdap!Added[8]
    BY <2>2, Zenon
  <2> QED
    BY <1>1, <2>3, Zenon
<1>3. OpenLdap!Added \in Seq(OpenLdap!AddedSet)
  <2>1. \A S : \A a, b, c, d, e, f, g, h \in S : <<a, b, c, d, e, f, g, h>> \in Seq(S)
    OBVIOUS
  <2>2. /\ "root" \in OpenLdap!AddedSet /\ "module unique" \in OpenLdap!AddedSet
        /\ "overlay unique" \in OpenLdap!AddedSet /\ "schema ppolicy" \in OpenLdap!AddedSet
        /\ "module ppolicy" \in OpenLdap!AddedSet /\ "overlay ppolicy" \in OpenLdap!AddedSet
        /\ "Policies" \in OpenLdap!AddedSet /\ "passwordDefault" \in OpenLdap!AddedSet
    BY <1>2, Zenon
  <2> QED
    BY <2>1, <2>2, Zenon DEF OpenLdap!Added
<1>4. \A i, j \in 1..8 : OpenLdap!Added[i] = OpenLdap!Added[j] => i = j
  <2>1. \A i \in 1..8 : i = 1 \/ i = 2 \/ i = 3 \/ i = 4 \/ i = 5 \/ i = 6 \/ i = 7 \/ i = 8
    OBVIOUS
  <2> QED
    BY <1>1, <2>1, Zenon
<1>5. OpenLdap!AddedSet \subseteq OpenLdap!Deleted("True")
  BY <1>2, Zenon DEF OpenLdap!Deleted, OpenLdap!Modules, OpenLdap!Overlays, OpenLdap!Data
<1>6. "database" \notin OpenLdap!AddedSet
  BY <1>2, Zenon
<1>7. OpenLdap!AddedSet \subseteq OpenLdap!Entry /\ "database" \in OpenLdap!Entry
  BY <1>2, Zenon DEF OpenLdap!Entry, OpenLdap!Modules, OpenLdap!Overlays, OpenLdap!Data
<1> QED
  BY <1>1, <1>3, <1>4, <1>5, <1>6, <1>7, Zenon

\* What a removal leaves of the entries that it is about is known not to be removed.
LEMMA LdapRemoved ==
  ASSUME OpenLdap!Remove
  PROVE  \E forceclean \in {"True", "a boolean"} :
           /\ \/ ldStep = "remove" /\ ldStep' = "clearPassword" /\ forceclean = "True"
              \/ ldStep = "cleanRemove" /\ ldStep' = "cleanPassword"
           /\ kept' \subseteq disk /\ disk' = (disk \ OpenLdap!Deleted(forceclean)) \cup kept'
           /\ UNCHANGED <<live, password, todo, result, whole, clash, ldPhases>>
<1>1. ASSUME NEW forceclean, OpenLdap!RemoveFiles(forceclean)
      PROVE  kept' \subseteq disk /\ disk' = (disk \ OpenLdap!Deleted(forceclean)) \cup kept'
  <2>1. PICK left \in OpenLdap!ByFile(LdapStuck \cap disk \cap OpenLdap!Deleted(forceclean)) :
           kept' = left /\ disk' = (disk \ OpenLdap!Deleted(forceclean)) \cup left
    BY <1>1, Zenon DEF OpenLdap!RemoveFiles
  <2>2. left \subseteq disk
    BY DEF OpenLdap!ByFile
  <2> QED
    BY <2>1, <2>2
<1> QED
  BY <1>1, Zenon DEF OpenLdap!Remove, OpenLdap!RemoveWith

\* An addition that is under way has added a beginning of the list.
LEMMA LdapWithin == OpenLdap!LdapInv /\ [OpenLdap!Next]_(OpenLdap!vars) => OpenLdap!Within'
<1> SUFFICES ASSUME OpenLdap!LdapInv, [OpenLdap!Next]_(OpenLdap!vars) PROVE OpenLdap!Within'
  OBVIOUS
<1> USE DEF OpenLdap!Within
<1>1. OpenLdap!Within /\ (ldStep = "add" => \E n \in 0..8 : OpenLdap!AddedUpTo(n))
  BY DEF OpenLdap!LdapInv
<1>2. CASE OpenLdap!Config \/ OpenLdap!Cleanup
  BY <1>1, <1>2 DEF OpenLdap!Config, OpenLdap!Cleanup
<1>3. CASE OpenLdap!Remove
  BY <1>1, <1>3, LdapRemoved
<1>4. CASE OpenLdap!ClearPassword
  BY <1>1, <1>4 DEF OpenLdap!ClearPassword
<1>5. CASE OpenLdap!Template
  BY <1>1, <1>5, AddedEntries DEF OpenLdap!Template
<1>6. CASE OpenLdap!Kill
  BY <1>1, <1>6, Zenon DEF OpenLdap!Kill
<1>7. CASE OpenLdap!StartSlapd
  BY <1>1, <1>7, Zenon DEF OpenLdap!StartSlapd
<1>8. CASE OpenLdap!Add
  <2>1. Head(todo) \in OpenLdap!AddedSet
    BY <1>1, <1>8 DEF OpenLdap!Add, OpenLdap!AddedUpTo
  <2>2. Head(todo) \in OpenLdap!Entry
    BY <2>1, AddedEntries
  <2> QED
    BY <1>1, <1>8, <2>2 DEF OpenLdap!Add
<1>9. CASE OpenLdap!Replicate
  BY <1>1, <1>9, Zenon DEF OpenLdap!Replicate
<1>10. CASE OpenLdap!Fail
  BY <1>1, <1>10, Zenon DEF OpenLdap!Fail, OpenLdap!ByFile
<1>11. CASE OpenLdap!Revive
  BY <1>1, <1>11 DEF OpenLdap!Revive
<1>12. CASE UNCHANGED OpenLdap!vars
  BY <1>1, <1>12 DEF OpenLdap!vars
<1> QED
  BY <1>2, <1>3, <1>4, <1>5, <1>6, <1>7, <1>8, <1>9, <1>10, <1>11, <1>12 DEF OpenLdap!Next

\* Every action keeps the invariant.
LEMMA LdapStep == OpenLdap!LdapInv /\ [OpenLdap!Next]_(OpenLdap!vars) => OpenLdap!LdapInv'
<1> SUFFICES ASSUME OpenLdap!LdapInv, [OpenLdap!Next]_(OpenLdap!vars) PROVE OpenLdap!LdapInv'
  OBVIOUS
<1> OpenLdap!Within'
  BY LdapWithin
<1> USE DEF OpenLdap!LdapInv, OpenLdap!Enter, OpenLdap!End
<1>1. CASE OpenLdap!Config
  BY <1>1 DEF OpenLdap!Config
<1>2. CASE OpenLdap!Cleanup
  BY <1>2 DEF OpenLdap!Cleanup
<1>3. CASE OpenLdap!Remove
  <2>1. \A i \in 1..8 : OpenLdap!Added[i] \in OpenLdap!Deleted("True")
    BY AddedEntries DEF OpenLdap!AddedSet
  <2>2. /\ \/ ldStep = "remove" /\ ldStep' = "clearPassword"
           \/ ldStep = "cleanRemove" /\ ldStep' = "cleanPassword"
        /\ ldStep = "remove" => disk' = (disk \ OpenLdap!Deleted("True")) \cup kept'
        /\ kept' \subseteq disk' /\ UNCHANGED <<todo, whole, clash>>
    BY <1>3, LdapRemoved
  <2>3. ldStep = "remove" => OpenLdap!Missing'
    BY <2>1, <2>2 DEF OpenLdap!Missing
  <2>4. todo = <<>> /\ ~whole /\ clash = {}
    BY <2>2
  <2> QED
    BY <2>2, <2>3, <2>4
<1>4. CASE OpenLdap!ClearPassword
  BY <1>4 DEF OpenLdap!ClearPassword, OpenLdap!Missing
<1>5. CASE OpenLdap!Template
  <2>1. \A i \in 1..8 : OpenLdap!Added[i] # "database"
    BY AddedEntries DEF OpenLdap!AddedSet
  <2>2. OpenLdap!Missing'
    BY <1>5, <2>1 DEF OpenLdap!Template, OpenLdap!Missing
  <2> QED
    BY <1>5, <2>2, AddedEntries DEF OpenLdap!Template
<1>6. CASE OpenLdap!Kill
  BY <1>6, Zenon DEF OpenLdap!Kill, OpenLdap!Missing
<1>7. CASE OpenLdap!StartSlapd
  <2>1. CASE ldStep' = "add"
    <3>1. OpenLdap!AddedUpTo(0)'
      BY <1>7, <2>1, AddedEntries DEF OpenLdap!StartSlapd, OpenLdap!AddedUpTo, OpenLdap!Missing
    <3>2. disk # None
      BY LdapAssumption DEF OpenLdap!Within
    <3> QED
      BY <1>7, <2>1, <3>1, <3>2 DEF OpenLdap!StartSlapd
  <2> QED
    BY <1>7, <2>1, Zenon DEF OpenLdap!StartSlapd
<1>8. CASE OpenLdap!Add
  <2>1. PICK n \in 0..8 : OpenLdap!AddedUpTo(n)
    BY <1>8 DEF OpenLdap!Add
  <2>a. n < 8 /\ Head(todo) = OpenLdap!Added[n + 1] /\ kept' = kept
    BY <1>8, <2>1 DEF OpenLdap!Add, OpenLdap!AddedUpTo
  <2>b. CASE Head(todo) \in live
    <3>1. Head(todo) \in kept
      BY <2>1, <2>a, <2>b DEF OpenLdap!AddedUpTo
    <3>2. clash' = {Head(todo)} /\ ldStep' = "idle" /\ ~whole'
      BY <1>8, <2>b DEF OpenLdap!Add
    <3> QED
      BY <2>a, <3>1, <3>2
  <2>c. CASE Head(todo) \notin live
    <3>2. n < 8 /\ Head(todo) = OpenLdap!Added[n + 1] /\ Head(todo) \notin live
           /\ Head(todo) \notin kept /\ kept' = kept
      BY <1>8, <2>a, <2>c DEF OpenLdap!Add
    <3>3. OpenLdap!AddedUpTo(n + 1)'
      <4>1. /\ disk' = disk \cup {OpenLdap!Added[n + 1]}
            /\ live' = live \cup {OpenLdap!Added[n + 1]}
            /\ todo' = Tail(todo) /\ password' = "both"
        BY <1>8, <3>2 DEF OpenLdap!Add
      <4>2. todo' \in Seq(OpenLdap!AddedSet) /\ Len(todo') = 8 - (n + 1)
        BY <2>1, <3>2, <4>1 DEF OpenLdap!AddedUpTo
      <4>3. \A i \in 1..(8 - (n + 1)) : todo'[i] = OpenLdap!Added[(n + 1) + i]
        <5> TAKE i \in 1..(8 - (n + 1))
        <5>1. todo'[i] = todo[i + 1]
          BY <2>1, <3>2, <4>1 DEF OpenLdap!AddedUpTo
        <5> QED
          BY <2>1, <3>2, <5>1 DEF OpenLdap!AddedUpTo
      <4>4. \A i \in 1..(n + 1) : OpenLdap!Added[i] \in live' /\ OpenLdap!Added[i] \in disk'
                                    /\ OpenLdap!Added[i] \notin kept'
        BY <2>1, <3>2, <4>1 DEF OpenLdap!AddedUpTo
      <4>5. \A i \in ((n + 1) + 1)..8 : OpenLdap!Added[i] \in live' => OpenLdap!Added[i] \in kept'
        <5> TAKE i \in ((n + 1) + 1)..8
        <5>1. OpenLdap!Added[i] \in live => OpenLdap!Added[i] \in kept
          BY <2>1, <3>2 DEF OpenLdap!AddedUpTo
        <5>2. OpenLdap!Added[i] # OpenLdap!Added[n + 1]
          BY <3>2, AddedEntries
        <5> QED
          BY <3>2, <4>1, <5>1, <5>2
      <4> QED
        BY <4>1, <4>2, <4>3, <4>4, <4>5 DEF OpenLdap!AddedUpTo
    <3>4. live' # None
      <4>1. OpenLdap!Added[n + 1] \in OpenLdap!Entry
        BY <3>2, AddedEntries DEF OpenLdap!AddedSet
      <4>2. live' = live \cup {OpenLdap!Added[n + 1]} /\ live \subseteq OpenLdap!Entry
        BY <1>8, <3>2 DEF OpenLdap!Add, OpenLdap!Within
      <4>3. live' \in SUBSET OpenLdap!Entry
        BY <4>1, <4>2
      <4> QED
        BY <4>3, LdapAssumption
    <3>5. n + 1 \in 0..8
      BY <3>2
    <3>6. ldStep' = "add" /\ clash' = {} /\ ~whole' /\ kept' \subseteq live'
      BY <1>8, <3>2 DEF OpenLdap!Add
    <3>7. \E m \in 0..8 : OpenLdap!AddedUpTo(m)'
      BY <3>3, <3>5
    <3> QED
      BY <3>4, <3>6, <3>7
  <2> QED
    BY <2>b, <2>c
<1>9. CASE OpenLdap!Replicate
  <2>1. PICK n \in 0..8 : OpenLdap!AddedUpTo(n)
    BY <1>9, Zenon DEF OpenLdap!Replicate
  <2>2. n = 8
    <3>1. Len(todo) = 0
      BY <1>9, Zenon DEF OpenLdap!Replicate
    <3> QED
      BY <2>1, <3>1 DEF OpenLdap!AddedUpTo
  <2>3. /\ OpenLdap!AddedSet \subseteq disk /\ OpenLdap!AddedSet \subseteq live
        /\ password = "both" /\ kept \cap OpenLdap!AddedSet = {}
    BY <2>1, <2>2 DEF OpenLdap!AddedUpTo, OpenLdap!AddedSet
  <2> QED
    BY <1>9, <2>3, Zenon DEF OpenLdap!Replicate, OpenLdap!SetReplication
<1>10. CASE OpenLdap!Fail
  BY <1>10 DEF OpenLdap!Fail
<1>11. CASE OpenLdap!Revive
  BY <1>11 DEF OpenLdap!Revive
<1>12. CASE UNCHANGED OpenLdap!vars
  BY <1>12 DEF OpenLdap!vars, OpenLdap!AddedUpTo, OpenLdap!Missing
<1> QED
  BY <1>1, <1>2, <1>3, <1>4, <1>5, <1>6, <1>7, <1>8, <1>9, <1>10, <1>11, <1>12
     DEF OpenLdap!Next

\* Wherever config and cleanup of openldap_setup end, however often they are tried again
\* and whichever files stay: an add finds its entry there only when this very phase could
\* not remove its file, and a config that gets to its end has removed all that it adds,
\* and leaves all entries and both passwords.
THEOREM LdapCorrect == Spec => []ConfigRepeatable
<1> DEFINE Inv == part = "openldap" => OpenLdap!LdapInv
<1>1. Init => Inv
  <2>1. Init => OpenLdap!Init
    BY DEF Init
  <2> QED
    BY <2>1, AddedEntries DEF OpenLdap!Init, OpenLdap!LdapInv, OpenLdap!Within
<1>2. Inv /\ [Next]_vars => Inv'
  <2>1. [Next]_vars /\ part' = "openldap" => part = "openldap" /\ [OpenLdap!Next]_(OpenLdap!vars)
    BY DEF Next, vars, ldapVars, OpenLdap!vars
  <2> QED
    BY <2>1, LdapStep
<1>3. Inv => ConfigRepeatable
  BY AddedEntries DEF ConfigRepeatable, OpenLdap!ConfigRepeatable, OpenLdap!LdapInv, OpenLdap!AddedSet
<1> QED
  BY <1>1, <1>2, <1>3, PTL DEF Spec

-----------------------------------------------------------------------------
(* The data access layer.                                                  *)

\* Client c has moved, the others have not.
DataMoved(c) ==
  /\ dbCall' = [d \in Process |-> IF d = c THEN dbCall'[c] ELSE dbCall[d]]
  /\ dbCall'[c] = [step |-> dbCall'[c].step, req |-> dbCall'[c].req,
                   todo |-> dbCall'[c].todo, out |-> dbCall'[c].out]

\* Client c has left the collection alone, or written an object under its key.
DataUnwritten(c) ==
  UNCHANGED <<docs, version>> /\ marks' = [d \in Process |-> IF d = c THEN marks'[c] ELSE marks[d]]
DataWritten(c) ==
  \E i, o : Data!Write(c, i, o) /\ (driver # "openldap" => o = None \/ Data!HasKey(o, i))
DataRefreshed ==
  UNCHANGED <<docs, version>> /\ seen' = [docs |-> docs, version |-> version]

\* What a step of client c does to the collection and to its own call.
DataStep(c) ==
  /\ driver' = driver /\ DataMoved(c)
  /\ DataUnwritten(c) \/ DataWritten(c)
  /\ seen' = seen \/ DataRefreshed
  /\ driver # "openldap" => Data!RequestInv(c)' /\ Data!UpdateInv(c)'

\* The ways in which a call goes on.
LEMMA DataCalls ==
  ASSUME Data!ShapeInv, NEW c \in Process
  PROVE  /\ \A step, left : Data!Goto(c, step, left) =>
              /\ DataMoved(c)
              /\ dbCall'[c] = [step |-> step, req |-> dbCall[c].req, todo |-> left,
                               out |-> dbCall[c].out]
         /\ \A out : Data!Finish(c, out) =>
              /\ DataMoved(c)
              /\ dbCall'[c] = [step |-> "idle", req |-> dbCall[c].req, todo |-> dbCall[c].todo,
                               out |-> out]
<1>1. /\ dbCall = [d \in Process |-> dbCall[d]]
      /\ dbCall[c] = [step |-> dbCall[c].step, req |-> dbCall[c].req, todo |-> dbCall[c].todo,
                      out |-> dbCall[c].out]
  BY DEF Data!ShapeInv
<1>2. ASSUME NEW step, NEW left, Data!Goto(c, step, left)
      PROVE  /\ dbCall' = [d \in Process |-> IF d = c THEN dbCall'[c] ELSE dbCall[d]]
             /\ dbCall'[c] = [step |-> step, req |-> dbCall[c].req, todo |-> left,
                              out |-> dbCall[c].out]
  BY <1>1, <1>2, Zenon DEF Data!Goto
<1>3. ASSUME NEW out, Data!Finish(c, out)
      PROVE  /\ dbCall' = [d \in Process |-> IF d = c THEN dbCall'[c] ELSE dbCall[d]]
             /\ dbCall'[c] = [step |-> "idle", req |-> dbCall[c].req, todo |-> dbCall[c].todo,
                              out |-> out]
  BY <1>1, <1>3, Zenon DEF Data!Finish
<1> QED
  BY <1>2, <1>3 DEF DataMoved

\* A call that has returned has nothing under way.
LEMMA DataFinishes ==
  ASSUME Data!ShapeInv, NEW c \in Process, NEW out, Data!Finish(c, out)
  PROVE  /\ DataMoved(c) /\ dbCall'[c].step = "idle"
         /\ Data!RequestInv(c)' /\ Data!UpdateInv(c)'
<1>1. /\ DataMoved(c)
      /\ dbCall'[c] = [step |-> "idle", req |-> dbCall[c].req, todo |-> dbCall[c].todo,
                       out |-> out]
  BY DataCalls, Zenon
<1> QED
  BY <1>1 DEF Data!RequestInv, Data!UpdateInv

LEMMA DataReturns ==
  ASSUME Data!ShapeInv, NEW c \in Process, NEW r, Data!Return(c, r)
  PROVE  /\ DataMoved(c) /\ dbCall'[c].step = "idle"
         /\ Data!RequestInv(c)' /\ Data!UpdateInv(c)'
BY DataFinishes, Zenon DEF Data!Return

\* A call that goes on to a step that is neither a store nor the application of
\* an update.
LEMMA DataGoesOn ==
  ASSUME Data!DataInv, NEW c \in Process, NEW step, NEW left, Data!Goto(c, step, left),
         step \notin {"store", "apply"},
         step \in {"idle", "detached", "create"}
           \/ dbCall[c].step \notin {"idle", "detached", "create"}
  PROVE  /\ DataMoved(c)
         /\ driver # "openldap" => Data!RequestInv(c)' /\ Data!UpdateInv(c)'
<1>1. Data!ShapeInv
  BY DEF Data!DataInv
<1>2. /\ DataMoved(c)
      /\ dbCall'[c] = [step |-> step, req |-> dbCall[c].req, todo |-> left, out |-> dbCall[c].out]
  BY <1>1, DataCalls
<1>3. ASSUME driver # "openldap" PROVE Data!RequestInv(c)' /\ Data!UpdateInv(c)'
  <2>1. Data!RequestInv(c)
    BY <1>3 DEF Data!DataInv
  <2> QED
    BY <1>2, <2>1 DEF Data!RequestInv, Data!UpdateInv, Data!Sound, Data!HasKey
<1> QED
  BY <1>2, <1>3

\* What an update() has found stays sound when a client writes.
LEMMA EntryKept ==
  ASSUME Data!ShapeInv, driver' = driver, NEW c \in Process, NEW d \in Process, NEW e,
         Data!EntryInv(d, e), DataWritten(c) \/ (DataUnwritten(c) /\ c # d)
  PROVE  Data!EntryInv(d, e)'
<1> DEFINE j == e.object.id
<1>0. j \in DOMAIN Present /\ DOMAIN docs = DOMAIN Present /\ version \in [DOMAIN Present -> Nat]
  BY DEF Data!EntryInv, Data!ShapeInv
<1>1. CASE DataUnwritten(c) /\ c # d
  BY <1>1 DEF DataUnwritten, Data!EntryInv, Data!HasKey
<1>2. CASE DataWritten(c)
  <2>1. PICK i, o : Data!Write(c, i, o)
    BY <1>2 DEF DataWritten
  <2>2. /\ docs'[j] = IF i = j THEN o ELSE docs[j]
        /\ marks'[d].gone = IF o = None THEN marks[d].gone \cup {i} ELSE marks[d].gone
    BY <2>1, <1>0, Zenon DEF Data!Write
  <2>3. version'[j] = IF i = j /\ driver = "elastic" THEN version[j] + 1 ELSE version[j]
    BY <2>1, <1>0 DEF Data!Write
  <2>4. driver = "consul" => docs'[j] # None \/ j \in marks'[d].gone
    BY <2>2 DEF Data!EntryInv
  <2>5. driver = "elastic" => e.version \in Nat /\ e.version <= version'[j]
                              /\ (e.version = version'[j] => docs'[j] # None)
    BY <2>2, <2>3, <1>0 DEF Data!EntryInv
  <2> QED
    BY <2>4, <2>5 DEF Data!EntryInv, Data!HasKey
<1> QED
  BY <1>1, <1>2

\* What a search sees is what is stored, or an earlier version of it.
LEMMA SeenKept ==
  ASSUME Data!ShapeInv, Data!SeenInv, driver' = driver, driver # "openldap", NEW c \in Process,
         DataUnwritten(c) \/ DataWritten(c), seen' = seen \/ DataRefreshed
  PROVE  Data!SeenInv'
<1>1. CASE DataRefreshed
  BY <1>1 DEF DataRefreshed, Data!SeenInv, Data!ShapeInv, Data!Keyed, Data!HasKey
<1>2. CASE seen' = seen /\ DataUnwritten(c)
  BY <1>2 DEF DataUnwritten, Data!SeenInv, Data!Keyed, Data!HasKey
<1>3. CASE seen' = seen /\ DataWritten(c)
  <2>1. PICK i, o : Data!Write(c, i, o) /\ (o = None \/ Data!HasKey(o, i))
    BY <1>3 DEF DataWritten
  <2>2. ASSUME NEW j \in DOMAIN Present
        PROVE  /\ docs'[j] = IF i = j THEN o ELSE docs[j]
               /\ version'[j] = IF i = j /\ driver = "elastic" THEN version[j] + 1 ELSE version[j]
    BY <2>1, <2>2 DEF Data!Write, Data!ShapeInv
  <2>3. Data!Keyed(docs)'
    BY <2>1, <2>2 DEF Data!Keyed, Data!HasKey, Data!SeenInv
  <2>4. Data!Keyed(seen.docs)' /\ seen'.version \in [DOMAIN Present -> Nat]
    BY <1>3 DEF Data!Keyed, Data!HasKey, Data!SeenInv
  <2>5. ASSUME NEW j \in DOMAIN Present
        PROVE  /\ seen.version[j] <= version'[j]
               /\ seen.version[j] = version'[j] /\ driver = "elastic" => seen.docs[j] = docs'[j]
    <3>1. /\ seen.version[j] \in Nat /\ version[j] \in Nat /\ seen.version[j] <= version[j]
          /\ seen.version[j] = version[j] /\ driver = "elastic" => seen.docs[j] = docs[j]
      BY DEF Data!SeenInv, Data!ShapeInv
    <3> QED
      BY <3>1, <2>2
  <2>6. seen' = seen
    BY <1>3
  <2> QED
    BY <2>3, <2>4, <2>5, <2>6 DEF Data!SeenInv
<1> QED
  BY <1>1, <1>2, <1>3

\* The shapes, which every step keeps.
LEMMA ShapeKept ==
  ASSUME Data!ShapeInv, NEW c \in Process, DataStep(c)
  PROVE  Data!ShapeInv'
<1>1. DOMAIN docs' = DOMAIN Present /\ version' \in [DOMAIN Present -> Nat]
      /\ marks' = [d \in Process |-> marks'[d]]
  <2>1. CASE DataUnwritten(c)
    BY <2>1 DEF DataUnwritten, Data!ShapeInv
  <2>2. CASE DataWritten(c)
    <3>1. PICK i, o : Data!Write(c, i, o)
      BY <2>2 DEF DataWritten
    <3>2. DOMAIN docs' = DOMAIN Present
      BY <3>1 DEF Data!Write, Data!ShapeInv
    <3>3. version' \in [DOMAIN Present -> Nat]
      <4>1. version \in [DOMAIN Present -> Nat]
        BY DEF Data!ShapeInv
      <4>2. version' = [version EXCEPT ![i] = IF driver = "elastic" THEN version[i] + 1 ELSE version[i]]
        BY <3>1, Zenon DEF Data!Write
      <4>3. version' = [j \in DOMAIN Present |-> IF j = i /\ driver = "elastic"
                                               THEN version[j] + 1 ELSE version[j]]
        BY <4>1, <4>2, Zenon
      <4> QED
        BY <4>1, <4>3
    <3>4. marks' = [d \in Process |-> marks'[d]]
      BY <3>1 DEF Data!Write
    <3> QED
      BY <3>2, <3>3, <3>4
  <2> QED
    BY <2>1, <2>2 DEF DataStep
<1>2. dbCall' = [d \in Process |-> [step |-> dbCall'[d].step, req |-> dbCall'[d].req,
                                   todo |-> dbCall'[d].todo, out |-> dbCall'[d].out]]
  BY DEF DataStep, DataMoved, Data!ShapeInv
<1> QED
  BY <1>1, <1>2 DEF Data!ShapeInv, DataStep

\* So a step of one client keeps the invariant for all.
LEMMA DataKept ==
  ASSUME Data!DataInv, NEW c \in Process, DataStep(c)
  PROVE  Data!DataInv'
<1>1. Data!ShapeInv'
  BY ShapeKept DEF Data!DataInv
<1>2. ASSUME driver # "openldap" PROVE Data!SeenInv'
  BY <1>2, SeenKept DEF Data!DataInv, DataStep
<1>3. ASSUME driver # "openldap", NEW d \in Process
      PROVE  Data!RequestInv(d)' /\ Data!UpdateInv(d)'
  <2>1. CASE d = c
    BY <1>3, <2>1 DEF DataStep
  <2>2. CASE d # c
    <3>1. dbCall'[d] = dbCall[d] /\ Data!RequestInv(d) /\ Data!UpdateInv(d)
      BY <1>3, <2>2 DEF DataStep, DataMoved, Data!DataInv
    <3>2. \A e : Data!EntryInv(d, e) => Data!EntryInv(d, e)'
      BY <2>2, EntryKept DEF DataStep, Data!DataInv
    <3>3. Data!RequestInv(d)'
      BY <3>1 DEF Data!RequestInv, Data!Sound, Data!HasKey
    <3>4. Data!UpdateInv(d)'
      BY <3>1, <3>2 DEF Data!UpdateInv
    <3> QED
      BY <3>3, <3>4
  <2> QED
    BY <2>1, <2>2
<1> QED
  BY <1>1, <1>2, <1>3 DEF DataStep, Data!DataInv

\* What a search of update() or delete() finds, and the entries that it leaves.
LEMMA FoundEntries ==
  ASSUME Data!DataInv, driver # "openldap", NEW c \in Process, NEW f, NEW order,
         NEW s \in Data!Arrangements(Data!Found(f), order)
  PROVE  /\ Len(s) \in Nat /\ DOMAIN s = 1..Len(s)
         /\ \A k \in DOMAIN s :
              /\ Data!HasKey(s[k], s[k].id) /\ s[k].id \in DOMAIN Present
              /\ s[k] = Data!View[s[k].id] /\ s[k] # None
<1> DEFINE found == Data!Found(f)  n == Data!Cardinality(found)
<1>1. s \in [1..n -> found]
  BY DEF Data!Arrangements, Data!Bijection, Data!Injection
<1>2. found \subseteq {Data!View[i] : i \in DOMAIN Present} \ {None}
  BY DEF Data!Found, Data!Objects
<1>3. n \in Nat
  <2>1. IsFiniteSet(DOMAIN Present)
    BY DataAssumption DEF Data!IsFiniteSet, IsFiniteSet
  <2> DEFINE seenHere == [i \in DOMAIN Present |-> Data!View[i]]
  <2>2. IsFiniteSet({Data!View[i] : i \in DOMAIN Present})
    <3>1. seenHere \in Surjection(DOMAIN Present, {Data!View[i] : i \in DOMAIN Present})
      BY DEF Surjection
    <3> QED
      BY <2>1, <3>1, FS_Surjection
  <2>3. IsFiniteSet(found)
    BY <1>2, <2>2, FS_Subset
  <2>4. Cardinality(found) \in Nat
    BY <2>3, FS_CardinalityType
  <2> QED
    BY <2>4 DEF Data!Cardinality, Cardinality
<1>4. Len(s) = n /\ DOMAIN s = 1..n
  BY <1>1, <1>3
<1>5. Data!Keyed(Data!View)
  BY DEF Data!DataInv, Data!SeenInv, Data!View
<1>6. ASSUME NEW k \in DOMAIN s
      PROVE  /\ Data!HasKey(s[k], s[k].id) /\ s[k].id \in DOMAIN Present
             /\ s[k] = Data!View[s[k].id] /\ s[k] # None
  <2>1. PICK i \in DOMAIN Present : s[k] = Data!View[i] /\ s[k] # None
    BY <1>1, <1>2, <1>4, <1>6
  <2>2. Data!HasKey(s[k], i)
    BY <1>5, <2>1 DEF Data!Keyed
  <2> QED
    BY <2>1, <2>2 DEF Data!HasKey
<1> QED
  BY <1>3, <1>4, <1>6

\* The search of update() and delete().
LEMMA DataSearches ==
  ASSUME Data!DataInv, NEW c \in Process, NEW f, Data!SearchFor(c, f),
         dbCall[c].step \notin {"idle", "detached", "create"}
  PROVE  DataStep(c)
<1>s. Data!ShapeInv
  BY DEF Data!DataInv
<1>1. driver' = driver /\ DataUnwritten(c) /\ seen' = seen
  BY <1>s DEF Data!SearchFor, DataUnwritten, Data!ShapeInv
<1>2. CASE Data!Return(c, "error")
  BY <1>s, <1>1, <1>2, DataReturns DEF DataStep
<1>3. ASSUME NEW order, NEW s \in Data!Arrangements(Data!Found(f), order),
             Data!Goto(c, "apply", [k \in DOMAIN s |-> [object |-> s[k],
                                                       version |-> seen.version[s[k].id]]])
      PROVE  DataStep(c)
  <2>0. PICK left : left = [k \in DOMAIN s |-> [object |-> s[k], version |-> seen.version[s[k].id]]]
    BY Zenon
  <2>1. /\ DataMoved(c)
        /\ dbCall'[c] = [step |-> "apply", req |-> dbCall[c].req, todo |-> left,
                         out |-> dbCall[c].out]
    BY <1>s, <1>3, <2>0, DataCalls
  <2>2. ASSUME driver # "openldap" PROVE Data!RequestInv(c)' /\ Data!UpdateInv(c)'
    <3>1. Data!RequestInv(c)'
      BY <2>1, <2>2 DEF Data!RequestInv, Data!DataInv, Data!Sound, Data!HasKey
    <3>2. /\ Len(s) \in Nat /\ DOMAIN s = 1..Len(s)
          /\ \A k \in DOMAIN s :
               /\ Data!HasKey(s[k], s[k].id) /\ s[k].id \in DOMAIN Present
               /\ s[k] = Data!View[s[k].id] /\ s[k] # None
      BY <1>3, <2>2, FoundEntries
    <3>3. Len(left) = Len(s) /\ DOMAIN left = 1..Len(s)
      BY <2>0, <3>2
    <3>4. ASSUME NEW k \in DOMAIN s PROVE Data!EntryInv(c, left[k])'
      <4>1. left[k].object = s[k] /\ left[k].version = seen.version[s[k].id]
        BY <2>0, <3>4
      <4>2. docs' = docs /\ version' = version
        BY <1>1 DEF DataUnwritten
      <4>3. driver = "consul" => docs'[s[k].id] # None
        BY <3>2, <3>4, <4>2 DEF Data!View
      <4>4. ASSUME driver = "elastic"
            PROVE  LET i == s[k].id IN
                   /\ seen.version[i] \in Nat /\ seen.version[i] <= version[i]
                   /\ seen.version[i] = version[i] => docs[i] # None
        BY <2>2, <3>2, <3>4, <4>4 DEF Data!View, Data!DataInv, Data!SeenInv
      <4>5. /\ Data!HasKey(s[k], s[k].id) /\ s[k].id \in DOMAIN Present /\ driver' = driver
        BY <1>1, <3>2, <3>4
      <4> QED
        BY <4>1, <4>2, <4>3, <4>4, <4>5 DEF Data!EntryInv, Data!HasKey
    <3>5. left = [k \in 1..Len(left) |-> left[k]] /\ Len(left) \in Nat
      BY <2>0, <3>2, <3>3
    <3>6. Data!UpdateInv(c)'
      BY <2>1, <3>2, <3>3, <3>4, <3>5 DEF Data!UpdateInv
    <3> QED
      BY <3>1, <3>6
  <2> QED
    BY <1>1, <2>1, <2>2 DEF DataStep
<1> QED
  BY <1>2, <1>3, Zenon DEF Data!SearchFor

\* A new call.
LEMMA DataBegins ==
  ASSUME Data!DataInv, NEW c \in Process, NEW q \in Requests[driver], Data!Begin(c, q)
  PROVE  DataStep(c)
<1> DEFINE r == Data!Generic(q)
<1>s. Data!ShapeInv /\ driver \in Drivers
  BY DEF Data!DataInv, Data!ShapeInv
<1>1. q.op \in Data!Operations /\ Data!Sound(q)
  BY <1>s, DataAssumption
<1>2. r.op \in Data!Operations /\ Data!Sound(r)
  <2>1. r \in {q, Data!DeleteById(q)} \/ (q.op = "update_by_id" /\ r = Data!UpdateById(q))
    BY DEF Data!Generic
  <2>2. CASE r = q
    BY <1>1, <2>2
  <2>3. CASE r = Data!DeleteById(q)
    BY <2>3 DEF Data!DeleteById, Data!Operations, Data!Sound
  <2>4. CASE q.op = "update_by_id" /\ r = Data!UpdateById(q)
    BY <1>1, <2>4 DEF Data!UpdateById, Data!Operations, Data!Sound
  <2> QED
    BY <2>1, <2>2, <2>3, <2>4
<1>3. driver' = driver /\ DataUnwritten(c) /\ seen' = seen
  BY <1>s DEF Data!Begin, DataUnwritten, Data!ShapeInv
<1>4. PICK new : /\ dbCall' = [dbCall EXCEPT ![c] = new]
                 /\ new \in {Data!At(r.op, r),
                            [Data!At("idle", r) EXCEPT !.out = Data!Outcome("error")]}
  BY Zenon DEF Data!Begin
<1>5. new = [step |-> new.step, req |-> r, todo |-> new.todo, out |-> new.out]
      /\ new.step \in {"idle", r.op}
  BY <1>4 DEF Data!At
<1>6. dbCall' = [d \in Process |-> IF d = c THEN new ELSE dbCall[d]]
  BY <1>s, <1>4 DEF Data!ShapeInv
<1>7. DataMoved(c)
  BY <1>5, <1>6 DEF DataMoved
<1>8. new.step # "apply" /\ dbCall'[c] = new /\ new.req = r
  BY <1>2, <1>5, <1>6 DEF Data!Operations
<1>9. Data!RequestInv(c)' /\ Data!UpdateInv(c)'
  BY <1>2, <1>5, <1>8 DEF Data!RequestInv, Data!UpdateInv, Data!Sound, Data!HasKey, Data!Operations
<1> QED
  BY <1>3, <1>7, <1>9 DEF DataStep

\* The steps that only read the collection, or refresh what a search sees.
LEMMA DataReads ==
  ASSUME Data!DataInv, NEW c \in Process,
         \/ Data!Get(c) \/ Data!Count(c) \/ Data!Applied(c)
         \/ Data!Attach(c) \/ Data!CreateIndex(c) \/ Data!ElasticRefresh(c)
  PROVE  DataStep(c)
<1>s. Data!ShapeInv
  BY DEF Data!DataInv
<1>1. driver' = driver /\ DataUnwritten(c)
  BY <1>s, Zenon DEF Data!Get, Data!Count, Data!Applied, Data!Attach, Data!CreateIndex,
              Data!ElasticRefresh, DataUnwritten, Data!ShapeInv
<1>2. seen' = seen \/ DataRefreshed
  BY Zenon DEF Data!Get, Data!Count, Data!Applied, Data!Attach, Data!CreateIndex,
         Data!ElasticRefresh, DataRefreshed
<1>3. \/ \E out : Data!Finish(c, out)
      \/ \E step, left :
           /\ Data!Goto(c, step, left) /\ step \notin {"store", "apply"}
           /\ \/ step \in {"idle", "detached", "create"}
              \/ dbCall[c].step \notin {"idle", "detached", "create"}
  <2>1. CASE Data!Get(c)
    BY <2>1, Zenon DEF Data!Get, Data!Return
  <2>2. CASE Data!Count(c)
    BY <2>2 DEF Data!Count, Data!Return
  <2>3. CASE Data!Applied(c)
    BY <2>3 DEF Data!Applied, Data!Return
  <2>4. CASE Data!Attach(c)
    BY <2>4 DEF Data!Attach
  <2>5. CASE Data!CreateIndex(c)
    BY <2>5 DEF Data!CreateIndex
  <2>6. CASE Data!ElasticRefresh(c)
    BY <2>6 DEF Data!ElasticRefresh, Data!Return, Data!RefreshFirst
  <2> QED
    BY <2>1, <2>2, <2>3, <2>4, <2>5, <2>6
<1>4. /\ DataMoved(c)
      /\ driver # "openldap" => Data!RequestInv(c)' /\ Data!UpdateInv(c)'
  <2>1. ASSUME NEW out, Data!Finish(c, out)
        PROVE  DataMoved(c) /\ Data!RequestInv(c)' /\ Data!UpdateInv(c)'
    BY <1>s, <2>1, DataFinishes
  <2>2. ASSUME NEW step, NEW left, Data!Goto(c, step, left), step \notin {"store", "apply"},
               step \in {"idle", "detached", "create"}
                 \/ dbCall[c].step \notin {"idle", "detached", "create"}
        PROVE  /\ DataMoved(c)
               /\ driver # "openldap" => Data!RequestInv(c)' /\ Data!UpdateInv(c)'
    BY <2>2, DataGoesOn
  <2> QED
    BY <1>3, <2>1, <2>2
<1> QED
  BY <1>1, <1>2, <1>4 DEF DataStep

\* The first entry of an update(), and what remains of it when it is written.
LEMMA DataApplies ==
  ASSUME Data!DataInv, NEW c \in Process, driver # "openldap", dbCall[c].step = "apply",
         dbCall[c].req.op = "update", dbCall[c].todo # <<>>
  PROVE  LET left == dbCall[c].todo IN
         /\ Len(left) \in Nat /\ Len(Tail(left)) = Len(left) - 1 /\ Len(Tail(left)) \in Nat
         /\ Tail(left) = [k \in 1..Len(Tail(left)) |-> Tail(left)[k]]
         /\ Data!EntryInv(c, Data!Current(c))
         /\ \A k \in DOMAIN Tail(left) : Data!EntryInv(c, Tail(left)[k])
<1>1. PICK left : left = dbCall[c].todo
  OBVIOUS
<1>2. /\ Len(left) \in Nat /\ left = [k \in 1..Len(left) |-> left[k]]
      /\ \A k \in 1..Len(left) : Data!EntryInv(c, left[k])
  BY <1>1, Zenon DEF Data!DataInv, Data!UpdateInv
<1> DEFINE S == {left[k] : k \in 1..Len(left)}
<1>3. left \in Seq(S) /\ left # <<>>
  BY <1>1, <1>2
<1>4. /\ Head(left) = left[1] /\ Len(left) > 0
      /\ Tail(left) \in Seq(S) /\ Len(Tail(left)) = Len(left) - 1
      /\ \A k \in 1..Len(Tail(left)) : Tail(left)[k] = left[k + 1]
  BY <1>3
<1>5. PICK rest : rest = Tail(left)
  BY Zenon
<1>6. /\ Len(rest) \in Nat /\ rest = [k \in 1..Len(rest) |-> rest[k]]
      /\ Len(rest) = Len(left) - 1 /\ \A k \in 1..Len(rest) : rest[k] = left[k + 1]
  <2>1. rest \in Seq(S)
    BY <1>4, <1>5
  <2>2. Len(rest) \in Nat /\ rest = [k \in 1..Len(rest) |-> rest[k]]
    BY <2>1
  <2>3. Len(rest) = Len(left) - 1 /\ \A k \in 1..Len(rest) : rest[k] = left[k + 1]
    BY <1>4, <1>5
  <2> QED
    BY <2>2, <2>3
<1>7. \A k \in DOMAIN rest : Data!EntryInv(c, rest[k])
  <2>1. DOMAIN rest = 1..Len(rest)
    BY <1>6
  <2>2. \A k \in 1..Len(rest) : k + 1 \in 1..Len(left)
    BY <1>2, <1>6
  <2> QED
    BY <2>1, <2>2, <1>2, <1>6
<1>8. Data!EntryInv(c, Data!Current(c))
  BY <1>1, <1>2, <1>4 DEF Data!Current
<1> QED
  BY <1>1, <1>2, <1>4, <1>5, <1>6, <1>7, <1>8, Zenon

\* An update() goes on with the next entry.
LEMMA DataGoesOnApplying ==
  ASSUME Data!DataInv, NEW c \in Process, driver' = driver, dbCall[c].step = "apply",
         dbCall[c].todo # <<>>, Data!Goto(c, "apply", Data!Rest(c)), DataWritten(c)
  PROVE  /\ DataMoved(c)
         /\ driver # "openldap" => Data!RequestInv(c)' /\ Data!UpdateInv(c)'
<1>s. Data!ShapeInv
  BY DEF Data!DataInv
<1>1. /\ DataMoved(c)
      /\ dbCall'[c] = [step |-> "apply", req |-> dbCall[c].req, todo |-> Tail(dbCall[c].todo),
                       out |-> dbCall[c].out]
  <2>1. PICK rest : rest = Tail(dbCall[c].todo)
    BY Zenon
  <2>2. Data!Goto(c, "apply", rest)
    BY <2>1 DEF Data!Rest
  <2>3. /\ DataMoved(c)
        /\ dbCall'[c] = [step |-> "apply", req |-> dbCall[c].req, todo |-> rest,
                         out |-> dbCall[c].out]
    BY <1>s, <2>2, DataCalls
  <2> QED
    BY <2>1, <2>3
<1>2. ASSUME driver # "openldap" PROVE Data!RequestInv(c)' /\ Data!UpdateInv(c)'
  <2>1. Data!RequestInv(c)'
    BY <1>1, <1>2 DEF Data!DataInv, Data!RequestInv, Data!Sound, Data!HasKey
  <2>2. ASSUME dbCall[c].req.op = "update" PROVE Data!UpdateInv(c)'
    <3>1. PICK rest : rest = Tail(dbCall[c].todo)
      BY Zenon
    <3>2. /\ Len(rest) \in Nat /\ rest = [k \in 1..Len(rest) |-> rest[k]]
          /\ \A k \in DOMAIN rest : Data!EntryInv(c, rest[k])
      BY <1>2, <2>2, <3>1, DataApplies, Zenon
    <3>3. \A e : Data!EntryInv(c, e) => Data!EntryInv(c, e)'
      BY <1>s, EntryKept
    <3> QED
      BY <1>1, <3>1, <3>2, <3>3 DEF Data!UpdateInv
  <2>3. ASSUME dbCall[c].req.op # "update" PROVE Data!UpdateInv(c)'
    <3>1. dbCall'[c].req = dbCall[c].req
      BY <1>1
    <3> QED
      BY <2>3, <3>1 DEF Data!UpdateInv
  <2> QED
    BY <2>1, <2>2, <2>3
<1> QED
  BY <1>1, <1>2

\* A call that has failed has written nothing.
LEMMA DataFails ==
  ASSUME Data!DataInv, NEW c \in Process, driver' = driver, seen' = seen, NEW r,
         UNCHANGED <<docs, version, marks>>, Data!Return(c, r)
  PROVE  DataStep(c)
<1>s. Data!ShapeInv
  BY DEF Data!DataInv
<1>1. DataUnwritten(c)
  BY <1>s DEF DataUnwritten, Data!ShapeInv
<1> QED
  BY <1>s, <1>1, DataReturns DEF DataStep

\* The steps of a store() that write, or find the entry.
LEMMA DataStores ==
  ASSUME Data!DataInv, NEW c \in Process,
         Data!ConsulStore(c) \/ Data!ElasticStore(c) \/ Data!LdapStore(c)
  PROVE  DataStep(c)
<1>s. Data!ShapeInv
  BY DEF Data!DataInv
<1>1. driver' = driver /\ seen' = seen /\ dbCall[c].step = "store"
  BY DEF Data!ConsulStore, Data!ElasticStore, Data!LdapStore
<1>2. CASE UNCHANGED <<docs, version, marks>> /\ Data!Return(c, "error")
  BY <1>1, <1>2, DataFails
<1>3. CASE /\ Data!Write(c, dbCall[c].req.id, dbCall[c].req.object)
           /\ Data!Return(c, "ok") \/ Data!Goto(c, "refresh", <<>>)
  <2>1. DataWritten(c)
    BY <1>1, <1>3 DEF DataWritten, Data!DataInv, Data!RequestInv, Data!Sound
  <2>2. /\ DataMoved(c)
        /\ driver # "openldap" => Data!RequestInv(c)' /\ Data!UpdateInv(c)'
    BY <1>s, <1>1, <1>3, DataReturns, DataGoesOn
  <2> QED
    BY <1>1, <2>1, <2>2 DEF DataStep
<1>4. CASE UNCHANGED <<docs, version, marks>> /\ Data!Goto(c, "update_by_id", <<>>)
  <2>1. DataUnwritten(c)
    BY <1>s, <1>4 DEF DataUnwritten, Data!ShapeInv
  <2>2. /\ DataMoved(c)
        /\ driver # "openldap" => Data!RequestInv(c)' /\ Data!UpdateInv(c)'
    BY <1>1, <1>4, DataGoesOn
  <2> QED
    BY <1>1, <2>1, <2>2 DEF DataStep
<1>5. CASE Data!ConsulStore(c)
  BY <1>2, <1>3, <1>5 DEF Data!ConsulStore
<1>6. CASE Data!ElasticStore(c)
  BY <1>3, <1>6 DEF Data!ElasticStore
<1>7. CASE Data!LdapStore(c)
  BY <1>3, <1>4, <1>7 DEF Data!LdapStore
<1> QED
  BY <1>5, <1>6, <1>7

\* The steps that work through what an update() or a delete() has found.
LEMMA DataAppliesNext ==
  ASSUME Data!DataInv, NEW c \in Process,
         \/ Data!ConsulUpdate(c) \/ Data!ElasticUpdate(c) \/ Data!ElasticDelete(c)
         \/ Data!LdapUpdate(c) \/ Data!LdapDelete(c)
  PROVE  DataStep(c)
<1>s. Data!ShapeInv
  BY DEF Data!DataInv
<1>1. driver' = driver /\ seen' = seen /\ dbCall[c].step = "apply" /\ dbCall[c].todo # <<>>
  BY DEF Data!ConsulUpdate, Data!ElasticUpdate, Data!ElasticDelete, Data!LdapUpdate,
         Data!LdapDelete, Data!ElasticWrite, Data!Applying
<1>2. CASE UNCHANGED <<docs, version, marks>> /\ Data!Return(c, "error")
  BY <1>1, <1>2, DataFails
<1>3. CASE DataWritten(c) /\ Data!Goto(c, "apply", Data!Rest(c))
  <2>1. /\ DataMoved(c)
        /\ driver # "openldap" => Data!RequestInv(c)' /\ Data!UpdateInv(c)'
    BY <1>1, <1>3, DataGoesOnApplying
  <2> QED
    BY <1>1, <1>3, <2>1 DEF DataStep
<1>4. ASSUME driver # "openldap", dbCall[c].req.op = "update"
      PROVE  LET o == Data!Current(c).object
                 new == [o EXCEPT ![dbCall[c].req.field] = dbCall[c].req.value]
             IN  Data!HasKey(new, o.id)
  <2>1. Data!EntryInv(c, Data!Current(c))
    BY <1>1, <1>4, DataApplies, Zenon
  <2>2. dbCall[c].req.field # "id"
    BY <1>1, <1>4 DEF Data!DataInv, Data!RequestInv, Data!Sound
  <2> QED
    BY <2>1, <2>2 DEF Data!EntryInv, Data!HasKey
<1>5. CASE Data!ConsulUpdate(c)
  <2>1. driver # "openldap" /\ dbCall[c].req.op = "update"
    BY <1>5 DEF Data!ConsulUpdate, Data!Applying
  <2>2. ASSUME NEW o, o = Data!Current(c).object,
               Data!Write(c, o.id, [o EXCEPT ![dbCall[c].req.field] = dbCall[c].req.value])
        PROVE  DataWritten(c)
    BY <1>4, <2>1, <2>2 DEF DataWritten
  <2> QED
    BY <1>2, <1>3, <1>5, <2>2 DEF Data!ConsulUpdate
<1>6. CASE Data!ElasticUpdate(c)
  <2>1. driver # "openldap" /\ dbCall[c].req.op = "update"
    BY <1>6 DEF Data!ElasticUpdate, Data!Applying
  <2>2. ASSUME Data!Write(c, Data!Current(c).object.id, Data!Updated(c)) PROVE DataWritten(c)
    BY <1>4, <2>1, <2>2 DEF DataWritten, Data!Updated
  <2> QED
    BY <1>2, <1>3, <1>6, <2>2 DEF Data!ElasticUpdate, Data!ElasticWrite
<1>7. CASE Data!ElasticDelete(c)
  <2>1. ASSUME Data!Write(c, Data!Current(c).object.id, None) PROVE DataWritten(c)
    BY <2>1 DEF DataWritten
  <2> QED
    BY <1>2, <1>3, <1>7, <2>1 DEF Data!ElasticDelete, Data!ElasticWrite
<1>8. CASE Data!LdapDelete(c)
  <2>1. ASSUME Data!Write(c, Data!Current(c).object.id, None) PROVE DataWritten(c)
    BY <2>1 DEF DataWritten
  <2> QED
    BY <1>2, <1>3, <1>8, <2>1 DEF Data!LdapDelete
<1>9. CASE Data!LdapUpdate(c)
  <2>1. driver = "openldap"
    BY <1>9 DEF Data!LdapUpdate, Data!Applying
  <2>2. ASSUME NEW i, NEW o, Data!Write(c, i, o) PROVE DataWritten(c)
    BY <2>1, <2>2 DEF DataWritten
  <2>3. CASE /\ marks' = [marks EXCEPT ![c].landed = TRUE]
             /\ UNCHANGED <<docs, version>> /\ Data!Goto(c, "apply", Data!Rest(c))
    <3>1. DataUnwritten(c)
      BY <1>s, <2>3, Zenon DEF DataUnwritten, Data!ShapeInv
    <3>2. DataMoved(c)
      <4>1. PICK rest : rest = Data!Rest(c)
        OBVIOUS
      <4>2. Data!Goto(c, "apply", rest)
        BY <2>3, <4>1
      <4> QED
        BY <1>s, <4>2, DataCalls, Zenon
    <3> QED
      BY <1>1, <2>1, <3>1, <3>2 DEF DataStep
  <2> QED
    BY <1>2, <1>3, <1>9, <2>2, <2>3 DEF Data!LdapUpdate
<1> QED
  BY <1>5, <1>6, <1>7, <1>8, <1>9

\* The deletions of Consul.
LEMMA DataConsulDeletes ==
  ASSUME Data!DataInv, NEW c \in Process,
         Data!ConsulDeleteById(c) \/ \E k \in 1..Len(dbCall[c].todo) : Data!ConsulDelete(c, k)
  PROVE  DataStep(c)
<1>s. Data!ShapeInv
  BY DEF Data!DataInv
<1>1. ASSUME Data!ConsulDeleteById(c) PROVE DataStep(c)
  <2>1. driver' = driver /\ seen' = seen
    BY <1>1 DEF Data!ConsulDeleteById
  <2>2. CASE UNCHANGED <<docs, version, marks>> /\ Data!Return(c, "error")
    BY <2>1, <2>2, DataFails
  <2>3. CASE Data!Write(c, dbCall[c].req.id, None) /\ Data!Return(c, "ok")
    BY <1>s, <2>1, <2>3, DataReturns DEF DataStep, DataWritten
  <2> QED
    BY <1>1, <2>2, <2>3 DEF Data!ConsulDeleteById
<1>2. ASSUME NEW k \in 1..Len(dbCall[c].todo), Data!ConsulDelete(c, k) PROVE DataStep(c)
  <2>1. /\ driver' = driver /\ seen' = seen /\ driver = "consul"
        /\ dbCall[c].step = "apply" /\ dbCall[c].req.op = "delete"
    BY <1>2 DEF Data!ConsulDelete, Data!Applying
  <2>2. DataUnwritten(c) \/ DataWritten(c)
    <3>1. CASE UNCHANGED <<docs, version, marks>>
      BY <1>s, <3>1 DEF DataUnwritten, Data!ShapeInv
    <3>2. CASE Data!Write(c, dbCall[c].todo[k].object.id, None)
      BY <3>2 DEF DataWritten
    <3> QED
      BY <1>2, <3>1, <3>2 DEF Data!ConsulDelete
  <2>3. PICK left, out :
          dbCall' = [d \in Process |-> IF d = c THEN [step |-> "apply", req |-> dbCall[c].req,
                                                     todo |-> left, out |-> out]
                                                ELSE dbCall[d]]
    <3>1. CASE Data!Goto(c, "apply", Data!Without(dbCall[c].todo, k))
      <4>1. PICK left : left = Data!Without(dbCall[c].todo, k)
        OBVIOUS
      <4>2. Data!Goto(c, "apply", left)
        BY <3>1, <4>1
      <4>3. /\ DataMoved(c)
            /\ dbCall'[c] = [step |-> "apply", req |-> dbCall[c].req, todo |-> left,
                             out |-> dbCall[c].out]
        BY <1>s, <4>2, DataCalls
      <4> QED
        BY <4>3 DEF DataMoved
    <3>2. CASE dbCall' = [dbCall EXCEPT ![c].todo = Data!Without(@, k),
                                        ![c].out = Data!Outcome("failing")]
      <4>1. PICK left, out : left = Data!Without(dbCall[c].todo, k) /\ out = Data!Outcome("failing")
        OBVIOUS
      <4>2. dbCall' = [dbCall EXCEPT ![c] = [dbCall[c] EXCEPT !.todo = left, !.out = out]]
        BY <3>2, <4>1, Zenon
      <4>3. dbCall = [d \in Process |-> dbCall[d]]
        BY <1>s DEF Data!ShapeInv
      <4>4. PICK s, r, t, o : dbCall[c] = [step |-> s, req |-> r, todo |-> t, out |-> o]
        <5>1. dbCall[c] = [step |-> dbCall[c].step, req |-> dbCall[c].req,
                           todo |-> dbCall[c].todo, out |-> dbCall[c].out]
          BY <1>s DEF Data!ShapeInv
        <5> QED
          BY <5>1, Zenon
      <4>5. PICK new : new = [dbCall[c] EXCEPT !.todo = left, !.out = out]
        OBVIOUS
      <4>6. new = [step |-> s, req |-> r, todo |-> left, out |-> out]
        <5>1. PICK half : half = [dbCall[c] EXCEPT !.todo = left]
          BY Zenon
        <5>2. half = [step |-> s, req |-> r, todo |-> left, out |-> o]
          BY <4>4, <5>1
        <5>3. new = [half EXCEPT !.out = out]
          BY <4>5, <5>1, Zenon
        <5> QED
          BY <5>2, <5>3
      <4>7. new = [step |-> "apply", req |-> dbCall[c].req, todo |-> left, out |-> out]
        BY <2>1, <4>4, <4>6
      <4>8. dbCall' = [d \in Process |-> IF d = c THEN new ELSE dbCall[d]]
        BY <4>2, <4>3, <4>5
      <4> QED
        BY <4>7, <4>8, Zenon
    <3> QED
      BY <1>2, <3>1, <3>2, Zenon DEF Data!ConsulDelete
  <2>4. dbCall'[c] = [step |-> "apply", req |-> dbCall[c].req, todo |-> left, out |-> out]
    BY <2>3
  <2>5. DataMoved(c)
    BY <2>3, <2>4 DEF DataMoved
  <2>6. Data!RequestInv(c)' /\ Data!UpdateInv(c)'
    BY <2>1, <2>4 DEF Data!DataInv, Data!RequestInv, Data!UpdateInv, Data!Sound, Data!HasKey
  <2> QED
    BY <2>1, <2>2, <2>5, <2>6 DEF DataStep
<1> QED
  BY <1>1, <1>2

\* Every step of the layer is a step of one client.
LEMMA DataSteps ==
  ASSUME Data!DataInv, Data!Next
  PROVE  Data!DataInv'
<1>1. PICK c \in Process :
        \/ \E r \in Requests[driver] : Data!Begin(c, r)
        \/ Data!Get(c) \/ Data!Count(c) \/ Data!Search(c) \/ Data!Applied(c)
        \/ Data!ConsulStore(c) \/ Data!ConsulUpdate(c) \/ Data!ConsulDeleteById(c)
        \/ \E k \in 1..Len(dbCall[c].todo) : Data!ConsulDelete(c, k)
        \/ Data!Attach(c) \/ Data!CreateIndex(c)
        \/ Data!ElasticStore(c) \/ Data!ElasticRefresh(c) \/ Data!ElasticUpdate(c)
        \/ Data!ElasticDelete(c)
        \/ Data!LdapStore(c) \/ Data!LdapSearchById(c) \/ Data!LdapUpdate(c) \/ Data!LdapDelete(c)
  BY DEF Data!Next
<1>2. ASSUME Data!Search(c) \/ Data!LdapSearchById(c) PROVE DataStep(c)
  BY <1>2, DataSearches DEF Data!Search, Data!LdapSearchById
<1>3. DataStep(c)
  BY <1>1, <1>2, DataBegins, DataReads, DataStores, DataAppliesNext, DataConsulDeletes
<1> QED
  BY <1>3, DataKept

\* An object that appears where there was none is stored, or put back by an update()
\* of Consul that had found it.
LEMMA DataReturned ==
  ASSUME Data!DataInv, Data!Next, NEW i \in DOMAIN Present, docs[i] = None, docs'[i] # None
  PROVE  \E c \in Process :
           /\ dbCall'[c] # dbCall[c]
           /\ \/ dbCall[c].step = "store" /\ dbCall[c].req.id = i
              \/ driver = "consul" /\ dbCall[c].req.op = "update" /\ i \in marks[c].gone
<1>s. Data!ShapeInv
  BY DEF Data!DataInv
<1>1. PICK c \in Process :
        \/ Data!ConsulStore(c) \/ Data!ConsulUpdate(c)
        \/ Data!ElasticStore(c) \/ Data!ElasticUpdate(c)
        \/ Data!LdapStore(c) \/ Data!LdapUpdate(c)
        \/ \E j : Data!Write(c, j, None)
  <2>1. docs' # docs
    OBVIOUS
  <2> QED
    BY <2>1, Zenon DEF Data!Next, Data!Begin, Data!Get, Data!Count, Data!Search, Data!SearchFor,
      Data!Applied, Data!ConsulDeleteById, Data!ConsulDelete, Data!Attach, Data!CreateIndex,
      Data!ElasticRefresh, Data!ElasticDelete, Data!ElasticWrite, Data!LdapSearchById,
      Data!LdapDelete
<1>2. ASSUME NEW j, NEW o, Data!Write(c, j, o) PROVE j = i /\ o # None
  BY <1>s, <1>2 DEF Data!Write, Data!ShapeInv
<1>3. ASSUME Data!ConsulStore(c) \/ Data!ElasticStore(c) \/ Data!LdapStore(c)
      PROVE  /\ dbCall[c].step = "store" /\ dbCall[c].req.id = i /\ dbCall'[c] # dbCall[c]
  <2>1. /\ dbCall[c].step = "store" /\ Data!Write(c, dbCall[c].req.id, dbCall[c].req.object)
        /\ Data!Return(c, "ok") \/ Data!Goto(c, "refresh", <<>>)
    BY <1>3 DEF Data!ConsulStore, Data!ElasticStore, Data!LdapStore
  <2>2. dbCall'[c].step \in {"idle", "refresh"}
    BY <1>s, <2>1 DEF Data!Return, Data!Finish, Data!Goto, Data!ShapeInv
  <2> QED
    BY <1>2, <2>1, <2>2
<1>4. ASSUME Data!ConsulUpdate(c)
      PROVE  /\ driver = "consul" /\ dbCall[c].req.op = "update" /\ i \in marks[c].gone
             /\ dbCall'[c] # dbCall[c]
  <2>1. /\ driver = "consul" /\ dbCall[c].step = "apply" /\ dbCall[c].req.op = "update"
        /\ dbCall[c].todo # <<>> /\ Data!Goto(c, "apply", Data!Rest(c))
        /\ \E o : Data!Write(c, Data!Current(c).object.id, o)
    BY <1>4 DEF Data!ConsulUpdate, Data!Applying
  <2>2. Data!Current(c).object.id = i
    BY <1>2, <2>1
  <2>3. /\ Data!EntryInv(c, Data!Current(c))
        /\ Len(dbCall[c].todo) \in Nat /\ Len(Tail(dbCall[c].todo)) = Len(dbCall[c].todo) - 1
    BY <2>1, DataApplies, Zenon
  <2>4. PICK rest : rest = Tail(dbCall[c].todo)
    BY Zenon
  <2>5. Data!Goto(c, "apply", rest)
    BY <2>1, <2>4 DEF Data!Rest
  <2>6. dbCall'[c] = [step |-> "apply", req |-> dbCall[c].req, todo |-> rest,
                     out |-> dbCall[c].out]
    BY <1>s, <2>5, DataCalls
  <2>7. dbCall'[c] # dbCall[c]
    <3>1. Len(rest) # Len(dbCall[c].todo)
      BY <2>3, <2>4
    <3> QED
      BY <2>6, <3>1
  <2> QED
    BY <2>1, <2>2, <2>3, <2>7 DEF Data!EntryInv
<1>5. ~Data!ElasticUpdate(c)
  <2>1. SUFFICES ASSUME Data!ElasticUpdate(c) PROVE FALSE
    OBVIOUS
  <2>2. /\ driver = "elastic" /\ dbCall[c].step = "apply" /\ dbCall[c].req.op = "update"
        /\ dbCall[c].todo # <<>> /\ Data!IsCurrent(c)
        /\ Data!Write(c, Data!Current(c).object.id, Data!Updated(c))
    BY <2>1 DEF Data!ElasticUpdate, Data!ElasticWrite, Data!Applying
  <2>3. Data!Current(c).object.id = i
    BY <1>2, <2>2
  <2>4. Data!EntryInv(c, Data!Current(c))
    BY <2>2, DataApplies, Zenon
  <2> QED
    BY <2>2, <2>3, <2>4 DEF Data!EntryInv, Data!IsCurrent
<1>6. ~Data!LdapUpdate(c)
  <2>1. SUFFICES ASSUME Data!LdapUpdate(c) PROVE FALSE
    OBVIOUS
  <2>2. /\ docs[Data!Current(c).object.id] # None
        /\ \E o : Data!Write(c, Data!Current(c).object.id, o)
    BY <2>1 DEF Data!LdapUpdate
  <2> QED
    BY <1>2, <2>2
<1> QED
  BY <1>1, <1>2, <1>3, <1>4, <1>5, <1>6

(* What is deleted comes back by a store() only, or, with Consul, by an    *)
(* update() during which it was deleted: for any number of clients, calls, *)
(* objects and filters (update() of the drivers, which work on what they   *)
(* have found before).                                                     *)
THEOREM DeletedCorrect == Spec => DeletedStays
<1> DEFINE Inv == part = "data" => Data!DataInv
<1>1. ASSUME Init PROVE Inv
  <2>1. Data!Init
    BY <1>1 DEF Init
  <2>2. Data!ShapeInv
    BY <2>1 DEF Data!Init, Data!ShapeInv, Data!At
  <2>3. /\ Data!Keyed(docs) /\ seen.docs = docs /\ seen.version = version
        /\ version = [i \in DOMAIN Present |-> 0]
    BY <2>1, DataAssumption DEF Data!Init, Data!Keyed
  <2>4. Data!SeenInv
    BY <2>3 DEF Data!SeenInv, Data!Keyed
  <2>5. ASSUME NEW c \in Process PROVE Data!RequestInv(c) /\ Data!UpdateInv(c)
    BY <2>1, <2>5 DEF Data!Init, Data!RequestInv, Data!UpdateInv, Data!At
  <2> QED
    BY <2>2, <2>4, <2>5 DEF Data!DataInv
<1>2. ASSUME Inv, [Next]_vars PROVE Inv'
  <2>1. CASE part = "data" /\ Data!Next /\ part' = part
    BY <1>2, <2>1, DataSteps
  <2>2. CASE part' = part /\ UNCHANGED dataVars
    BY <1>2, <2>2 DEF dataVars, Data!DataInv, Data!ShapeInv, Data!SeenInv, Data!Keyed,
      Data!RequestInv, Data!UpdateInv, Data!EntryInv, Data!Sound, Data!HasKey
  <2>3. CASE part # "data" /\ part' = part
    BY <2>3
  <2> QED
    BY <1>2, <2>1, <2>2, <2>3 DEF Next, vars
<1>3. ASSUME Inv, [Next]_vars
      PROVE  [\A i \in DOMAIN Present : docs[i] = None /\ docs'[i] # None =>
                \E c \in Process :
                  /\ dbCall'[c] # dbCall[c]
                  /\ \/ dbCall[c].step = "store" /\ dbCall[c].req.id = i
                     \/ driver = "consul" /\ dbCall[c].req.op = "update" /\ i \in marks[c].gone]_(Data!vars)
  <2>1. CASE part = "data" /\ Data!Next
    BY <1>3, <2>1, DataReturned
  <2>2. CASE UNCHANGED dataVars
    BY <2>2 DEF dataVars, Data!vars
  <2> QED
    BY <1>3, <2>1, <2>2 DEF Next, vars
<1> QED
  BY <1>1, <1>2, <1>3, PTL DEF Spec, DeletedStays, Data!DeletedStays

-----------------------------------------------------------------------------
(* A configuration in a directory.                                         *)

\* The beginnings of a path.
LEMMA PathBegins ==
  ASSUME NEW S, NEW n \in Seq(S), NEW i \in 0..Len(n)
  PROVE  /\ SubSeq(n, 1, i) \in Seq(S) /\ Len(SubSeq(n, 1, i)) = i
         /\ \A j \in 1..i : SubSeq(n, 1, i)[j] = n[j]
<1>1. \A j \in 1..i : n[j] \in S
  OBVIOUS
<1>2. i \in Int /\ i \in Nat
  OBVIOUS
<1>3. /\ SubSeq(n, 1, i) \in Seq(S)
      /\ Len(SubSeq(n, 1, i)) = IF 1 <= i THEN i - 1 + 1 ELSE 0
      /\ \A j \in 1..(i - 1 + 1) : SubSeq(n, 1, i)[j] = n[1 + j - 1]
  BY <1>1, <1>2, SubSeqProperties
<1> QED
  BY <1>2, <1>3

\* The beginning of a beginning.
LEMMA PathBeginsTwice ==
  ASSUME NEW S, NEW n \in Seq(S), NEW i \in 0..Len(n), NEW j \in 0..i
  PROVE  SubSeq(SubSeq(n, 1, i), 1, j) = SubSeq(n, 1, j)
<1>1. PICK m : m = SubSeq(n, 1, i)
  OBVIOUS
<1>2. m \in Seq(S) /\ Len(m) = i /\ \A l \in 1..i : m[l] = n[l]
  BY <1>1, PathBegins
<1>3. j \in 0..Len(m) /\ j \in 0..Len(n)
  BY <1>2
<1>4. PICK a : a = SubSeq(m, 1, j)
  OBVIOUS
<1>5. PICK b : b = SubSeq(n, 1, j)
  OBVIOUS
<1>6. a \in Seq(S) /\ Len(a) = j /\ \A l \in 1..j : a[l] = m[l]
  BY <1>2, <1>3, <1>4, PathBegins
<1>7. b \in Seq(S) /\ Len(b) = j /\ \A l \in 1..j : b[l] = n[l]
  BY <1>3, <1>5, PathBegins
<1>8. \A l \in 1..j : a[l] = b[l]
  BY <1>2, <1>3, <1>6, <1>7
<1>9. a = b
  BY <1>6, <1>7, <1>8, SeqEqual
<1> QED
  BY <1>1, <1>4, <1>5, <1>9

\* What is above a node, and above that.
LEMMA AboveFacts ==
  ASSUME NEW S, NEW n \in Seq(S), NEW m \in Directory!Above(n)
  PROVE  /\ m \in Seq(S) /\ Len(m) < Len(n) /\ m # n
         /\ m = SubSeq(n, 1, Len(m)) /\ Directory!Above(m) \subseteq Directory!Above(n)
<1>1. PICK i \in 0..(Len(n) - 1) : m = SubSeq(n, 1, i)
  BY DEF Directory!Above
<1>2. Len(n) \in Nat /\ i \in 0..Len(n)
  OBVIOUS
<1>3. m \in Seq(S) /\ Len(m) = i
  BY <1>1, <1>2, PathBegins
<1>4. ASSUME NEW l \in Directory!Above(m) PROVE l \in Directory!Above(n)
  <2>1. PICK j \in 0..(Len(m) - 1) : l = SubSeq(m, 1, j)
    BY <1>4 DEF Directory!Above
  <2>2. j \in 0..i /\ j \in 0..(Len(n) - 1)
    BY <1>2, <1>3, <2>1
  <2>3. l = SubSeq(n, 1, j)
    BY <1>1, <1>2, <2>1, <2>2, PathBeginsTwice
  <2> QED
    BY <2>2, <2>3 DEF Directory!Above
<1> QED
  BY <1>1, <1>2, <1>3, <1>4

\* The nearest directory.
LEMMA ParentFacts ==
  ASSUME NEW S, NEW n \in Seq(S), n # Directory!Top
  PROVE  /\ Directory!Parent(n) \in Directory!Above(n)
         /\ \A m \in Directory!Above(n) :
              m = Directory!Parent(n) \/ m \in Directory!Above(Directory!Parent(n))
<1>1. Len(n) \in Nat /\ Len(n) # 0
  BY EmptySeq DEF Directory!Top
<1>2. PICK k : k = Len(n) - 1
  OBVIOUS
<1>3. k \in Nat /\ k \in 0..(Len(n) - 1) /\ k \in 0..Len(n)
  BY <1>1, <1>2
<1>4. Directory!Parent(n) = SubSeq(n, 1, k)
  BY <1>2 DEF Directory!Parent
<1>5. Directory!Parent(n) \in Directory!Above(n)
  BY <1>3, <1>4 DEF Directory!Above
<1>6. Len(Directory!Parent(n)) = k
  BY <1>3, <1>4, PathBegins
<1>7. ASSUME NEW m \in Directory!Above(n), m # Directory!Parent(n)
      PROVE  m \in Directory!Above(Directory!Parent(n))
  <2>1. PICK i \in 0..(Len(n) - 1) : m = SubSeq(n, 1, i)
    BY <1>7 DEF Directory!Above
  <2>2. i # k
    BY <1>4, <1>7, <2>1
  <2>3. i \in 0..(k - 1) /\ i \in 0..k
    BY <1>1, <1>2, <1>3, <2>1, <2>2
  <2>4. m = SubSeq(Directory!Parent(n), 1, i)
    BY <1>3, <1>4, <2>1, <2>3, PathBeginsTwice
  <2> QED
    BY <1>6, <2>3, <2>4 DEF Directory!Above
<1> QED
  BY <1>5, <1>7

\* Keys are paths.
LEMMA KeyFacts ==
  ASSUME NEW k \in FileKey
  PROVE  /\ k \in Seq(Directory!Name) /\ k # Directory!Top
         /\ Directory!Parent(k) \in Directory!Above(k) /\ k \notin Directory!Above(k)
<1>1. k \in Seq(Directory!Name) /\ k # Directory!Top
  BY DirAssumption, Zenon
<1>2. k \notin Directory!Above(k)
  BY <1>1, AboveFacts
<1> QED
  BY <1>1, <1>2, ParentFacts

\* A file stays as it is.
Kept(k) == Directory!IsFile(tree, k) => Directory!IsFile(tree, k)' /\ tree'[k] = tree[k]

\* makedirs() leaves the files alone.
LEMMA TreeMakes ==
  ASSUME Directory!TreeInv, NEW k \in FileKey,
         \A n \in Directory!Above(k) : ~Directory!IsFile(tree, n),
         tree' = [n \in DOMAIN tree \cup Directory!Above(k) |->
                    IF n \in Directory!Above(k) THEN Directory!Dir ELSE tree[n]]
  PROVE  /\ Directory!TreeInv' /\ \A n : Kept(n)
         /\ \A n : Directory!IsDir(tree, n) => Directory!IsDir(tree, n)'
         /\ \A n : n \in DOMAIN tree' /\ n \notin DOMAIN tree => Directory!IsDir(tree, n)'
<1>1. k \in Seq(Directory!Name)
  BY KeyFacts
<1>2. /\ \A n : Kept(n)
      /\ \A n : Directory!IsDir(tree, n) => Directory!IsDir(tree, n)'
      /\ \A n \in Directory!Above(k) : Directory!IsDir(tree, n)'
  BY DEF Kept, Directory!IsDir, Directory!IsFile
<1>3. ASSUME NEW n \in DOMAIN tree'
      PROVE  /\ n \in Seq(Directory!Name) /\ tree'[n] \in FileValue \cup {"", Directory!Dir}
             /\ \A m \in Directory!Above(n) : Directory!IsDir(tree, m)'
  <2>1. CASE n \in Directory!Above(k)
    <3>1. n \in Seq(Directory!Name) /\ Directory!Above(n) \subseteq Directory!Above(k)
      BY <1>1, <2>1, AboveFacts
    <3> QED
      BY <1>2, <2>1, <3>1
  <2>2. CASE n \notin Directory!Above(k)
    <3>1. n \in DOMAIN tree /\ tree'[n] = tree[n]
      BY <2>2
    <3> QED
      BY <1>2, <3>1, Zenon DEF Directory!TreeInv
  <2> QED
    BY <2>1, <2>2, Zenon
<1>4. Directory!TreeInv'
  BY <1>3, Zenon DEF Directory!TreeInv
<1> QED
  BY <1>2, <1>4 DEF Directory!IsDir

\* A file is written in a directory.
LEMMA TreePuts ==
  ASSUME Directory!TreeInv, NEW k \in FileKey, NEW v \in FileValue \cup {""},
         ~Directory!IsDir(tree, k), Directory!IsDir(tree, Directory!Parent(k)),
         tree' = Directory!Put(tree, k, v)
  PROVE  /\ Directory!TreeInv' /\ Directory!IsFile(tree, k)' /\ tree'[k] = v
         /\ \A n : n # k => (n \in DOMAIN tree' <=> n \in DOMAIN tree)
         /\ \A n \in DOMAIN tree : n # k => tree'[n] = tree[n]
<1>1. /\ k \in Seq(Directory!Name) /\ k # Directory!Top /\ k \notin Directory!Above(k)
      /\ v # Directory!Dir
  BY KeyFacts, DirAssumption, Zenon DEF Directory!Dir
<1>2. /\ tree' = [n \in DOMAIN tree' |-> tree'[n]] /\ DOMAIN tree' = DOMAIN tree \cup {k}
      /\ tree'[k] = v /\ \A n \in DOMAIN tree : n # k => tree'[n] = tree[n]
  BY Zenon DEF Directory!Put
<1>3. \A n : Directory!IsDir(tree, n) => Directory!IsDir(tree, n)'
  BY <1>2, Zenon DEF Directory!IsDir
<1>4. \A m \in Directory!Above(k) : Directory!IsDir(tree, m)
  <2>1. Directory!Parent(k) \in DOMAIN tree
    BY Zenon DEF Directory!IsDir
  <2>2. \A m \in Directory!Above(Directory!Parent(k)) : Directory!IsDir(tree, m)
    BY <2>1, Zenon DEF Directory!TreeInv
  <2> QED
    BY <1>1, <2>2, ParentFacts, Zenon
<1>5. Directory!TreeInv'
  BY <1>1, <1>2, <1>3, <1>4, Zenon DEF Directory!TreeInv
<1> QED
  BY <1>1, <1>2, <1>5, Zenon DEF Directory!IsFile

\* A file is removed, which nothing is in.
LEMMA TreeLoses ==
  ASSUME Directory!TreeInv, NEW k \in FileKey, Directory!IsFile(tree, k),
         tree' = [n \in DOMAIN tree \ {k} |-> tree[n]]
  PROVE  Directory!TreeInv'
<1>1. \A n \in DOMAIN tree' : n \in DOMAIN tree /\ tree'[n] = tree[n]
  OBVIOUS
<1>2. ASSUME NEW m, Directory!IsDir(tree, m) PROVE Directory!IsDir(tree, m)'
  BY <1>2 DEF Directory!IsDir, Directory!IsFile
<1>3. ASSUME NEW n \in DOMAIN tree'
      PROVE  /\ n \in Seq(Directory!Name) /\ tree'[n] \in FileValue \cup {"", Directory!Dir}
             /\ \A m \in Directory!Above(n) : Directory!IsDir(tree, m)'
  BY <1>1, <1>2, Zenon DEF Directory!TreeInv
<1> QED
  BY <1>3, Zenon DEF Directory!TreeInv

\* Other calls: what may change of them in a step that is not theirs.
OtherCall(c, d) ==
  /\ d = [c EXCEPT !.linked = d.linked, !.shared = d.shared]
  /\ c.shared \subseteq d.shared /\ d.shared \subseteq c.touch

\* A step of p leaves alone what p does not touch.
OthersKept(p) ==
  \A k \in FileKey : \/ k \in Directory!Touched(p)
                     \/ Kept(k) /\ meant'[k] = meant[k] /\ (k \in risk => k \in risk')

\* A call is under way.
LEMMA NotIdle ==
  ASSUME NEW d, Directory!CallType(d)
  PROVE  d # Directory!Idle
<1>1. d.op # "none"
  BY Zenon DEF Directory!CallType
<1>2. Directory!Idle.op = "none"
  BY DEF Directory!Idle
<1> QED
  BY <1>1, <1>2

\* A call knows what it knew, when another process takes a step.
LEMMA OtherCallKept ==
  ASSUME Directory!DirInv, NEW p \in Process, NEW q \in Process \ {p},
         dirCall[q] # Directory!Idle, NEW d, OtherCall(dirCall[q], d), OthersKept(p),
         d.step = "write" /\ d.linked => Directory!IsFile(tree, d.key)',
         d.key \notin d.shared /\ d.step = "write" /\ dirCall[q].linked => d.linked
  PROVE  Directory!CallInv(d)'
<1>1. PICK c : c = dirCall[q]
  OBVIOUS
<1>2. Directory!CallType(c) /\ \A k \in c.touch \ c.shared : Directory!Alone(c, k)
  BY <1>1 DEF Directory!DirInv, Directory!CallInv
<1>3. c = [op |-> c.op, step |-> c.step, key |-> c.key, vals |-> c.vals,
           todo |-> c.todo, linked |-> c.linked, touch |-> c.touch, shared |-> c.shared]
  BY <1>2, Zenon DEF Directory!CallType
<1>4. /\ d.op = c.op /\ d.step = c.step /\ d.key = c.key /\ d.vals = c.vals
      /\ d.todo = c.todo /\ d.touch = c.touch
      /\ d = [op |-> d.op, step |-> d.step, key |-> d.key, vals |-> d.vals,
              todo |-> d.todo, linked |-> d.linked, touch |-> d.touch, shared |-> d.shared]
      /\ c.shared \subseteq d.shared /\ d.shared \subseteq c.touch
  BY <1>1, <1>3 DEF OtherCall
<1>5. Directory!CallType(d)
  BY <1>2, <1>4, Zenon DEF Directory!CallType
<1>6. c # Directory!Idle /\ d # Directory!Idle
  BY <1>1, <1>5, NotIdle
<1>7. ASSUME NEW k \in d.touch \ d.shared PROVE Directory!Alone(d, k)'
  <2>1. k \in c.touch \ c.shared /\ k \in FileKey
    BY <1>2, <1>4, Zenon DEF Directory!CallType
  <2>2. k \in Directory!Touched(q)
    BY <1>1, <1>6, <2>1 DEF Directory!Touched
  <2>3. Directory!Touched(q) \cap Directory!Touched(p) \subseteq c.shared
    BY <1>1, <1>6 DEF Directory!DirInv
  <2>4. Kept(k) /\ meant'[k] = meant[k] /\ (k \in risk => k \in risk')
    BY <2>1, <2>2, <2>3 DEF OthersKept
  <2>5. Directory!Alone(c, k)
    BY <1>2, <2>1
  <2>6. Directory!Writes(d, k) <=> Directory!Writes(c, k)
    BY <1>4, <1>6 DEF Directory!Writes
  <2>7. Directory!Writes(c, k) => d.linked
    BY <1>1, <1>4, <2>5, Zenon DEF Directory!Writes, Directory!Alone
  <2>8. Directory!Writes(d, k) => d.linked /\ Directory!IsFile(tree, k)' /\ tree'[k] = ""
    BY <2>4, <2>5, <2>6, <2>7, Zenon DEF Directory!Alone, Kept
  <2>9. ASSUME d.op = "save"
        PROVE  /\ Directory!IsFile(tree, k)'
               /\ k \in DOMAIN d.vals =>
                    IF Directory!Writes(d, k)
                    THEN d.vals[k] # None /\ (k \notin risk' => d.vals[k] = meant'[k])
                    ELSE d.vals[k] = tree'[k]
    BY <1>4, <2>4, <2>5, <2>6, <2>9, Zenon DEF Directory!Alone, Kept
  <2> QED
    BY <2>8, <2>9, Zenon DEF Directory!Alone, Directory!Writes
<1> QED
  BY <1>5, <1>7, Zenon DEF Directory!CallInv, Directory!CallType

\* The invariant of a call, of the one that a process is in after a step.
LEMMA CallAgain ==
  ASSUME NEW q, NEW e, e = dirCall'[q], Directory!CallInv(e)'
  PROVE  Directory!CallInv(dirCall[q])'
<1>1. Directory!CallType(dirCall[q])'
  <2>1. Directory!CallType(e)
    BY Zenon DEF Directory!CallInv, Directory!CallType
  <2> QED
    BY <2>1, Zenon DEF Directory!CallType
<1>2. (dirCall[q].step = "write" /\ dirCall[q].linked => Directory!IsFile(tree, dirCall[q].key))'
  BY DEF Directory!CallInv, Directory!IsFile
<1>3. ASSUME NEW k \in (dirCall[q].touch \ dirCall[q].shared)'
      PROVE  Directory!Alone(dirCall[q], k)'
  <2>1. Directory!Alone(e, k)'
    BY <1>3 DEF Directory!CallInv
  <2> QED
    BY <2>1, Zenon DEF Directory!Alone, Directory!Writes
<1> QED
  BY <1>1, <1>2, <1>3 DEF Directory!CallInv

\* A step of p that leads to the call d of p.
LEMMA DirStep ==
  ASSUME Directory!DirInv, NEW p \in Process, NEW d, Directory!TreeInv', OthersKept(p),
         d = Directory!Idle \/ Directory!CallInv(d)',
         meant' = [k \in FileKey |-> meant'[k]],
         dirCall' = [q \in Process |-> dirCall'[q]], dirCall'[p] = d,
         \A q \in Process \ {p} :
           IF dirCall[q] = Directory!Idle THEN dirCall'[q] = Directory!Idle
           ELSE /\ OtherCall(dirCall[q], dirCall'[q])
                /\ \A e : e = dirCall'[q] => Directory!CallInv(e)'
                /\ d # Directory!Idle =>
                     d.touch \cap dirCall[q].touch \subseteq d.shared \cap dirCall'[q].shared,
         \A k \in FileKey \ risk' :
           ~Directory!Shares(d, k) /\ ~Directory!Writes(d, k) =>
             \/ Directory!Settled(k)'
             \/ /\ k \notin risk /\ (Directory!Settled(k) => Directory!Settled(k)')
                /\ ~Directory!Shares(dirCall[p], k) /\ ~Directory!Writes(dirCall[p], k)
  PROVE  Directory!DirInv'
<1>1. ASSUME NEW q \in Process \ {p}, dirCall[q] # Directory!Idle
      PROVE  /\ dirCall'[q] # Directory!Idle /\ \A e : e = dirCall'[q] => Directory!CallInv(e)'
             /\ dirCall'[q].touch = dirCall[q].touch /\ dirCall[q].shared \subseteq dirCall'[q].shared
             /\ dirCall'[q].step = dirCall[q].step /\ dirCall'[q].key = dirCall[q].key
  <2>1. PICK c : c = dirCall[q]
    OBVIOUS
  <2>2. PICK e : e = dirCall'[q]
    OBVIOUS
  <2>3. OtherCall(c, e) /\ Directory!CallInv(e)'
    BY <1>1, <2>1, <2>2
  <2>4. Directory!CallType(c) /\ Directory!CallType(e)
    <3>1. Directory!CallInv(c)
      BY <1>1, <2>1 DEF Directory!DirInv
    <3> QED
      BY <2>3, <3>1, Zenon DEF Directory!CallInv, Directory!CallType
  <2>5. c = [op |-> c.op, step |-> c.step, key |-> c.key, vals |-> c.vals,
             todo |-> c.todo, linked |-> c.linked, touch |-> c.touch, shared |-> c.shared]
    BY <2>4, Zenon DEF Directory!CallType
  <2>6. e.touch = c.touch /\ c.shared \subseteq e.shared /\ e.step = c.step /\ e.key = c.key
    BY <2>3, <2>5, Zenon DEF OtherCall
  <2> QED
    BY <2>1, <2>2, <2>3, <2>4, <2>6, NotIdle
<1>2. ASSUME NEW q \in Process, dirCall'[q] # Directory!Idle
      PROVE  Directory!CallInv(dirCall[q])'
  <2>1. PICK e : e = dirCall'[q]
    OBVIOUS
  <2>2. Directory!CallInv(e)'
    BY <1>1, <1>2, <2>1
  <2> QED
    BY <2>1, <2>2, CallAgain
<1>3. \A q, r \in Process : q # r => (Directory!Touched(q) \cap Directory!Touched(r))' \subseteq
                                     IF dirCall'[q] = Directory!Idle THEN {} ELSE dirCall'[q].shared
  <2> SUFFICES ASSUME NEW q \in Process, NEW r \in Process, q # r,
                      dirCall'[q] # Directory!Idle, dirCall'[r] # Directory!Idle
               PROVE  dirCall'[q].touch \cap dirCall'[r].touch \subseteq dirCall'[q].shared
    BY DEF Directory!Touched
  <2>1. CASE q # p /\ r # p
    <3>1. dirCall[q] # Directory!Idle /\ dirCall[r] # Directory!Idle
      BY <2>1
    <3>2. dirCall[q].touch \cap dirCall[r].touch \subseteq dirCall[q].shared
      BY <3>1 DEF Directory!DirInv, Directory!Touched
    <3> QED
      BY <1>1, <2>1, <3>1, <3>2
  <2>2. CASE q = p
    <3>1. dirCall[r] # Directory!Idle /\ r \in Process \ {p}
      BY <2>2
    <3> QED
      BY <1>1, <2>2, <3>1
  <2>3. CASE r = p
    <3>1. dirCall[q] # Directory!Idle /\ q \in Process \ {p}
      BY <2>3
    <3> QED
      BY <1>1, <2>3, <3>1
  <2> QED
    BY <2>1, <2>2, <2>3
<1>4. Directory!SettledInv'
  <2> SUFFICES ASSUME NEW k \in FileKey \ risk',
                      \A q \in Process : ~Directory!Shares(dirCall'[q], k) /\ ~Directory!Writes(dirCall'[q], k)
               PROVE  Directory!Settled(k)'
    BY DEF Directory!SettledInv, Directory!Shares, Directory!Writes
  <2>1. \/ Directory!Settled(k)'
        \/ /\ k \notin risk /\ (Directory!Settled(k) => Directory!Settled(k)')
           /\ ~Directory!Shares(dirCall[p], k) /\ ~Directory!Writes(dirCall[p], k)
    OBVIOUS
  <2>2. ASSUME NEW q \in Process \ {p}
        PROVE  ~Directory!Shares(dirCall[q], k) /\ ~Directory!Writes(dirCall[q], k)
    BY <1>1, <2>2 DEF Directory!Shares, Directory!Writes
  <2>3. Directory!SettledInv
    BY DEF Directory!DirInv
  <2> QED
    BY <2>1, <2>2, <2>3 DEF Directory!SettledInv
<1> QED
  BY <1>2, <1>3, <1>4 DEF Directory!DirInv

\* A step of p that changes the call of p only.
LEMMA OneCall ==
  ASSUME Directory!DirInv, NEW p \in Process, NEW d, Directory!TreeInv', OthersKept(p),
         dirCall[p] # Directory!Idle, dirCall' = [dirCall EXCEPT ![p] = d],
         \A k \in FileKey : Directory!IsFile(tree, k) => Directory!IsFile(tree, k)',
         \/ d = Directory!Idle
         \/ Directory!CallInv(d)' /\ d.touch = dirCall[p].touch /\ d.shared = dirCall[p].shared,
         meant' = [k \in FileKey |-> meant'[k]],
         \A k \in FileKey \ risk' :
           ~Directory!Shares(d, k) /\ ~Directory!Writes(d, k) =>
             \/ Directory!Settled(k)'
             \/ /\ k \notin risk /\ (Directory!Settled(k) => Directory!Settled(k)')
                /\ ~Directory!Shares(dirCall[p], k) /\ ~Directory!Writes(dirCall[p], k)
  PROVE  Directory!DirInv'
<1>1. /\ dirCall'[p] = d /\ dirCall' = [q \in Process |-> dirCall'[q]]
      /\ \A q \in Process \ {p} : dirCall'[q] = dirCall[q]
  BY DEF Directory!DirInv
<1>2. ASSUME NEW q \in Process \ {p}, dirCall[q] # Directory!Idle
      PROVE  /\ OtherCall(dirCall[q], dirCall'[q])
             /\ \A e : e = dirCall'[q] => Directory!CallInv(e)'
             /\ d # Directory!Idle =>
                  d.touch \cap dirCall[q].touch \subseteq d.shared \cap dirCall'[q].shared
  <2>1. PICK c : c = dirCall[q]
    OBVIOUS
  <2>2. Directory!CallInv(c)
    BY <1>2, <2>1 DEF Directory!DirInv
  <2>3. Directory!CallType(c)
    BY <2>2 DEF Directory!CallInv
  <2>4. OtherCall(c, c)
    BY <2>3, Zenon DEF OtherCall, Directory!CallType
  <2>5. c.step = "write" /\ c.linked => Directory!IsFile(tree, c.key)'
    BY <2>2, <2>3, Zenon DEF Directory!CallInv, Directory!CallType
  <2>6. Directory!CallInv(c)'
    BY <1>2, <2>1, <2>4, <2>5, OtherCallKept
  <2>7. d # Directory!Idle => d.touch \cap c.touch \subseteq d.shared \cap c.shared
    BY <1>2, <2>1 DEF Directory!DirInv, Directory!Touched
  <2> QED
    BY <1>1, <2>1, <2>4, <2>6, <2>7
<1> QED
  BY <1>1, <1>2, DirStep

\* A call knows what it knew, as long as nothing changes.
LEMMA CallStays ==
  ASSUME NEW d, Directory!CallInv(d), UNCHANGED <<tree, meant, risk>>
  PROVE  Directory!CallInv(d)'
BY Zenon DEF Directory!CallInv, Directory!CallType, Directory!Alone, Directory!Writes, Directory!IsFile

\* A step of p that changes nothing but its call, which goes on or ends.
LEMMA QuietStep ==
  ASSUME Directory!DirInv, NEW p \in Process, NEW d,
         dirCall[p] # Directory!Idle, dirCall' = [dirCall EXCEPT ![p] = d],
         UNCHANGED <<tree, meant>>, risk \subseteq risk',
         \/ /\ d = Directory!Idle /\ dirCall[p].shared \subseteq risk'
            /\ \A k : Directory!Writes(dirCall[p], k) => k \in risk'
         \/ /\ Directory!CallInv(d) /\ risk' = risk /\ dirCall[p].step # "write"
            /\ d.touch = dirCall[p].touch /\ d.shared = dirCall[p].shared
  PROVE  Directory!DirInv'
<1>1. Directory!TreeInv'
  BY Zenon DEF Directory!DirInv, Directory!TreeInv, Directory!IsDir
<1>2. OthersKept(p)
  BY DEF OthersKept, Kept, Directory!IsFile
<1>3. \A k \in FileKey : Directory!IsFile(tree, k) => Directory!IsFile(tree, k)'
  BY DEF Directory!IsFile
<1>4. meant' = [k \in FileKey |-> meant'[k]]
  BY DEF Directory!DirInv
<1>5. ASSUME Directory!CallInv(d), risk' = risk PROVE Directory!CallInv(d)'
  BY <1>5, CallStays
<1>6. ASSUME NEW k \in FileKey \ risk', ~Directory!Shares(d, k)
      PROVE  /\ k \notin risk /\ (Directory!Settled(k) => Directory!Settled(k)')
             /\ ~Directory!Shares(dirCall[p], k) /\ ~Directory!Writes(dirCall[p], k)
  <2>1. Directory!Settled(k) => Directory!Settled(k)'
    BY DEF Directory!Settled, Directory!IsDir, Directory!Content
  <2>2. ASSUME Directory!CallInv(d) PROVE d # Directory!Idle
    BY <2>2, NotIdle DEF Directory!CallInv
  <2> QED
    BY <1>6, <2>1, <2>2 DEF Directory!Shares, Directory!Writes
<1> QED
  BY <1>1, <1>2, <1>3, <1>4, <1>5, <1>6, OneCall

\* A call begins, or finds out what it touches.
LEMMA TouchStep ==
  ASSUME Directory!DirInv, NEW p \in Process, NEW c, NEW T, NEW d,
         Directory!Touch(p, c, T), UNCHANGED <<tree, meant, risk>>,
         d = [c EXCEPT !.touch = T,
                       !.shared = T \cap UNION {Directory!Touched(r) : r \in Process \ {p}}],
         d.touch = T, d.shared = T \cap UNION {Directory!Touched(r) : r \in Process \ {p}},
         Directory!CallInv(d),
         dirCall[p] = Directory!Idle \/ (dirCall[p].touch = {} /\ dirCall[p].step # "write")
  PROVE  Directory!DirInv'
<1>1. Directory!TreeInv'
  BY Zenon DEF Directory!DirInv, Directory!TreeInv, Directory!IsDir
<1>2. OthersKept(p)
  BY DEF OthersKept, Kept, Directory!IsFile
<1>3. meant' = [k \in FileKey |-> meant'[k]]
  BY DEF Directory!DirInv
<1>4. Directory!CallInv(d)'
  BY CallStays
<1>5. /\ dirCall' = [q \in Process |-> dirCall'[q]] /\ dirCall'[p] = d
      /\ \A q \in Process \ {p} :
           dirCall'[q] = IF dirCall[q] = Directory!Idle THEN Directory!Idle
                         ELSE [dirCall[q] EXCEPT !.shared = @ \cup (T \cap Directory!Touched(q))]
  BY Zenon DEF Directory!Touch
<1>6. ASSUME NEW q \in Process \ {p}, dirCall[q] # Directory!Idle
      PROVE  /\ OtherCall(dirCall[q], dirCall'[q])
             /\ \A e : e = dirCall'[q] => Directory!CallInv(e)'
             /\ d.touch \cap dirCall[q].touch \subseteq d.shared \cap dirCall'[q].shared
  <2>1. PICK a : a = dirCall[q]
    OBVIOUS
  <2>2. PICK e : e = dirCall'[q]
    OBVIOUS
  <2>3. Directory!CallInv(a)
    BY <1>6, <2>1 DEF Directory!DirInv
  <2>4. Directory!CallType(a)
    BY <2>3, Zenon DEF Directory!CallInv
  <2>5. Directory!Touched(q) = a.touch
    BY <1>6, <2>1 DEF Directory!Touched
  <2>6. e = [a EXCEPT !.shared = @ \cup (T \cap a.touch)]
    BY <1>5, <1>6, <2>1, <2>2, <2>5
  <2>7. /\ a = [op |-> a.op, step |-> a.step, key |-> a.key, vals |-> a.vals,
                todo |-> a.todo, linked |-> a.linked, touch |-> a.touch, shared |-> a.shared]
        /\ a.shared \subseteq a.touch
    BY <2>4, Zenon DEF Directory!CallType
  <2>8. /\ e.shared = a.shared \cup (T \cap a.touch) /\ e.linked = a.linked
        /\ e.step = a.step /\ e.key = a.key
        /\ e = [a EXCEPT !.linked = e.linked, !.shared = e.shared]
    BY <2>6, <2>7
  <2>9. OtherCall(a, e)
    BY <2>7, <2>8 DEF OtherCall
  <2>10. e.step = "write" /\ e.linked => Directory!IsFile(tree, e.key)'
    BY <2>3, <2>8, Zenon DEF Directory!CallInv, Directory!IsFile
  <2>11. Directory!CallInv(e)'
    BY <1>2, <1>6, <2>1, <2>8, <2>9, <2>10, OtherCallKept
  <2>12. a.touch \subseteq UNION {Directory!Touched(r) : r \in Process \ {p}}
    BY <2>5
  <2> QED
    BY <2>1, <2>2, <2>8, <2>9, <2>11, <2>12
<1>7. \A k : ~Directory!Shares(dirCall[p], k) /\ ~Directory!Writes(dirCall[p], k)
  <2>1. dirCall[p] # Directory!Idle => dirCall[p].shared \subseteq dirCall[p].touch
    BY Zenon DEF Directory!DirInv, Directory!CallInv, Directory!CallType
  <2> QED
    BY <2>1 DEF Directory!Shares, Directory!Writes
<1>8. \A k : Directory!Settled(k) => Directory!Settled(k)'
  BY DEF Directory!Settled, Directory!IsDir, Directory!Content
<1> QED
  BY <1>1, <1>2, <1>3, <1>4, <1>5, <1>6, <1>7, <1>8, DirStep

\* What is known of the call that a process is in.
LEMMA InCall ==
  ASSUME Directory!DirInv, NEW p \in Process, dirCall[p] # Directory!Idle, NEW c, c = dirCall[p]
  PROVE  /\ Directory!CallInv(c) /\ Directory!CallType(c)
         /\ c = [op |-> c.op, step |-> c.step, key |-> c.key, vals |-> c.vals,
                 todo |-> c.todo, linked |-> c.linked, touch |-> c.touch, shared |-> c.shared]
         /\ c.touch \subseteq FileKey /\ c.shared \subseteq c.touch
<1>1. Directory!CallInv(c)
  BY DEF Directory!DirInv
<1> QED
  BY <1>1, Zenon DEF Directory!CallInv, Directory!CallType

\* What a call touches is noted in it.
LEMMA TouchNoted ==
  ASSUME NEW o, NEW s, NEW k, NEW w, NEW l, NEW b, NEW t, NEW h, NEW T, NEW S, NEW c,
         c = [op |-> o, step |-> s, key |-> k, vals |-> w,
              todo |-> b, linked |-> l, touch |-> t, shared |-> h],
         NEW d, d = [c EXCEPT !.touch = T, !.shared = S]
  PROVE  d = [op |-> o, step |-> s, key |-> k, vals |-> w,
              todo |-> b, linked |-> l, touch |-> T, shared |-> S]
<1>1. /\ c = [op |-> c.op, step |-> c.step, key |-> c.key, vals |-> c.vals,
              todo |-> c.todo, linked |-> c.linked, touch |-> c.touch, shared |-> c.shared]
      /\ c.op = o /\ c.step = s /\ c.key = k /\ c.vals = w
      /\ c.todo = b /\ c.linked = l
  OBVIOUS
<1>2. d = [op |-> c.op, step |-> c.step, key |-> c.key, vals |-> c.vals,
           todo |-> c.todo, linked |-> c.linked, touch |-> T, shared |-> S]
  BY <1>1
<1> QED
  BY <1>1, <1>2

\* A call begins (set, delete and save).
LEMMA EnterStep ==
  ASSUME Directory!DirInv, NEW p \in Process, NEW o, NEW s, NEW k, NEW v,
         Directory!Enter(p, o, s, k, v),
         \/ o = "set" /\ s = "mkdir" /\ k \in FileKey /\ v \in FileValue
         \/ o = "delete" /\ s = "look" /\ k \in FileKey
         \/ o = "save" /\ s = "list"
  PROVE  Directory!DirInv'
<1>1. PICK T : T = IF o = "save" THEN {} ELSE {k}
  OBVIOUS
<1>2. PICK c : c = [op |-> o, step |-> s, key |-> k, vals |-> [x \in {k} |-> v],
                    todo |-> {}, linked |-> TRUE, touch |-> {}, shared |-> {}]
  OBVIOUS
<1>3. Directory!Touch(p, c, T) /\ UNCHANGED <<tree, meant, risk>> /\ dirCall[p] = Directory!Idle
  BY <1>1, <1>2 DEF Directory!Enter
<1>4. PICK S : S = T \cap UNION {Directory!Touched(r) : r \in Process \ {p}}
  OBVIOUS
<1>5. PICK w : w = [x \in {k} |-> v]
  OBVIOUS
<1>6. c = [op |-> o, step |-> s, key |-> k, vals |-> w,
            todo |-> {}, linked |-> TRUE, touch |-> {}, shared |-> {}]
  BY <1>2, <1>5
<1>7. PICK d : d = [c EXCEPT !.touch = T, !.shared = S]
  OBVIOUS
<1>8. d = [op |-> o, step |-> s, key |-> k, vals |-> w,
           todo |-> {}, linked |-> TRUE, touch |-> T, shared |-> S]
  BY <1>6, <1>7, TouchNoted, Zenon
<1>9. d = [c EXCEPT !.touch = T,
                    !.shared = T \cap UNION {Directory!Touched(r) : r \in Process \ {p}}]
  BY <1>4, <1>7
<1>10. /\ d.op = o /\ d.step = s /\ d.key = k /\ d.vals = [x \in {k} |-> v]
      /\ d.todo = {} /\ d.touch = T
      /\ d.shared = T \cap UNION {Directory!Touched(r) : r \in Process \ {p}}
      /\ d = [op |-> d.op, step |-> d.step, key |-> d.key, vals |-> d.vals,
              todo |-> d.todo, linked |-> d.linked, touch |-> d.touch, shared |-> d.shared]
  BY <1>4, <1>5, <1>8
<1>11. Directory!CallType(d)
  <2>1. CASE o = "set" /\ s = "mkdir" /\ k \in FileKey /\ v \in FileValue
    <3>1. T = {k} /\ DOMAIN d.vals = {k} /\ d.vals[k] = v
      BY <1>1, <1>10, <2>1
    <3> QED
      BY <1>10, <2>1, <3>1 DEF Directory!CallType
  <2>2. CASE o = "delete" /\ s = "look" /\ k \in FileKey
    <3>1. T = {k} /\ k \in T /\ T \subseteq FileKey
      BY <1>1, <2>2
    <3> QED
      BY <1>10, <2>2, <3>1 DEF Directory!CallType
  <2>3. CASE o = "save" /\ s = "list"
    <3>1. T = {}
      BY <1>1, <2>3
    <3> QED
      BY <1>10, <2>3, <3>1 DEF Directory!CallType
  <2> QED
    BY <2>1, <2>2, <2>3
<1>12. Directory!CallInv(d)
  <2>1. d.step # "write" /\ (d.op = "save" => d.touch = {})
    BY <1>1, <1>10
  <2> QED
    BY <1>11, <2>1, Zenon DEF Directory!CallInv, Directory!Alone, Directory!Writes
<1> QED
  BY <1>3, <1>9, <1>10, <1>12, TouchStep, Zenon

\* save() lists all keys.
LEMMA ListStep ==
  ASSUME Directory!DirInv, NEW p \in Process, Directory!List(p)
  PROVE  Directory!DirInv'
<1>1. PICK b : b = dirCall[p]
  OBVIOUS
<1>2. dirCall[p] # Directory!Idle /\ b.step = "list" /\ UNCHANGED <<tree, meant, risk>>
  BY <1>1 DEF Directory!List
<1>3. /\ Directory!CallType(b)
      /\ b = [op |-> b.op, step |-> b.step, key |-> b.key, vals |-> b.vals,
              todo |-> b.todo, linked |-> b.linked, touch |-> b.touch, shared |-> b.shared]
  BY <1>1, <1>2, InCall
<1>4. b.op = "save" /\ b.touch = {}
  BY <1>2, <1>3 DEF Directory!CallType
<1>5. PICK T : T = Directory!GetKeys(tree)
  OBVIOUS
<1>6. PICK c : c = [b EXCEPT !.step = "read", !.vals = <<>>, !.todo = T]
  OBVIOUS
<1>7. Directory!Touch(p, c, T)
  BY <1>1, <1>5, <1>6 DEF Directory!List
<1>8. PICK d : d = [c EXCEPT !.touch = T,
                      !.shared = T \cap UNION {Directory!Touched(r) : r \in Process \ {p}}]
  BY Zenon
<1>9. c = [op |-> b.op, step |-> "read", key |-> b.key, vals |-> <<>>,
           todo |-> T, linked |-> b.linked, touch |-> b.touch, shared |-> b.shared]
  BY <1>3, <1>6
<1>10. d = [op |-> b.op, step |-> "read", key |-> b.key, vals |-> <<>>,
            todo |-> T, linked |-> b.linked, touch |-> T,
            shared |-> T \cap UNION {Directory!Touched(r) : r \in Process \ {p}}]
  BY <1>8, <1>9
<1>11. /\ d.op = "save" /\ d.step = "read" /\ DOMAIN d.vals = {} /\ d.todo = T /\ d.touch = T
       /\ d.shared = T \cap UNION {Directory!Touched(r) : r \in Process \ {p}}
       /\ d = [op |-> d.op, step |-> d.step, key |-> d.key, vals |-> d.vals,
               todo |-> d.todo, linked |-> d.linked, touch |-> d.touch, shared |-> d.shared]
  BY <1>4, <1>10
<1>12. T \subseteq FileKey /\ \A k \in T : Directory!IsFile(tree, k)
  BY <1>5 DEF Directory!GetKeys
<1>13. Directory!CallType(d)
  BY <1>11, <1>12 DEF Directory!CallType
<1>14. Directory!CallInv(d)
  BY <1>11, <1>12, <1>13 DEF Directory!CallInv, Directory!Alone, Directory!Writes
<1> QED
  BY <1>1, <1>2, <1>4, <1>7, <1>8, <1>11, <1>14, TouchStep, Zenon

\* A call raises, and leaves what it shares at risk.
LEMMA RaiseStep ==
  ASSUME Directory!DirInv, NEW p \in Process, dirCall[p] # Directory!Idle, Directory!Raise(p),
         UNCHANGED tree, dirCall[p].step = "write" => dirCall[p].key \in dirCall[p].shared
  PROVE  Directory!DirInv'
<1>1. /\ dirCall' = [dirCall EXCEPT ![p] = Directory!Idle] /\ UNCHANGED <<tree, meant>>
      /\ risk' = risk \cup dirCall[p].shared
  BY DEF Directory!Raise
<1>2. \A k : Directory!Writes(dirCall[p], k) => k \in risk'
  BY <1>1 DEF Directory!Writes
<1> QED
  BY <1>1, <1>2, QuietStep

\* A call goes on, and nothing else changes.
LEMMA GoStep ==
  ASSUME Directory!DirInv, NEW p \in Process, NEW c, c = dirCall[p], c # Directory!Idle,
         c.step # "write", NEW d, dirCall' = [dirCall EXCEPT ![p] = d],
         UNCHANGED <<tree, meant, risk>>, Directory!CallType(d), d.step # "write",
         d.op = c.op, d.touch = c.touch, d.shared = c.shared,
         d.op = "save" => \A k \in c.touch \ c.shared :
            k \in DOMAIN d.vals => \/ k \in DOMAIN c.vals /\ d.vals[k] = c.vals[k]
                                   \/ d.vals[k] = Directory!Content(tree, k)
  PROVE  Directory!DirInv'
<1>1. Directory!CallInv(c)
  BY InCall
<1>2. ASSUME NEW k \in d.touch \ d.shared PROVE Directory!Alone(d, k)
  <2>1. Directory!Alone(c, k)
    BY <1>1, <1>2 DEF Directory!CallInv
  <2>2. ~Directory!Writes(c, k) /\ ~Directory!Writes(d, k)
    BY DEF Directory!Writes
  <2>3. d.op = "save" => Directory!IsFile(tree, k) /\ (k \in DOMAIN c.vals => c.vals[k] = tree[k])
    BY <2>1, <2>2, Zenon DEF Directory!Alone
  <2>4. Directory!IsFile(tree, k) => Directory!Content(tree, k) = tree[k]
    BY DEF Directory!IsFile, Directory!Content
  <2>5. d.op = "save" => (k \in DOMAIN d.vals => d.vals[k] = tree[k])
    BY <1>2, <2>3, <2>4
  <2> QED
    BY <2>2, <2>3, <2>5, Zenon DEF Directory!Alone
<1>3. Directory!CallInv(d)
  BY <1>2 DEF Directory!CallInv
<1> QED
  BY <1>3, QuietStep

\* A key that a call is alone with, and that is not at risk, is settled.
LEMMA AloneSettled ==
  ASSUME Directory!DirInv, NEW p \in Process, dirCall[p] # Directory!Idle,
         NEW k \in dirCall[p].touch \ dirCall[p].shared, k \notin risk,
         ~Directory!Writes(dirCall[p], k)
  PROVE  Directory!Settled(k)
<1>1. k \in FileKey
  BY InCall
<1>2. ASSUME NEW q \in Process PROVE ~Directory!Shares(dirCall[q], k) /\ ~Directory!Writes(dirCall[q], k)
  <2>1. CASE q = p
    BY <2>1 DEF Directory!Shares
  <2>2. CASE q # p /\ dirCall[q] # Directory!Idle
    <3>1. Directory!Touched(p) \cap Directory!Touched(q) \subseteq dirCall[p].shared
      BY <2>2 DEF Directory!DirInv
    <3>2. k \notin dirCall[q].touch
      BY <2>2, <3>1 DEF Directory!Touched
    <3>3. PICK c : c = dirCall[q]
      OBVIOUS
    <3>4. Directory!CallType(c) /\ c.shared \subseteq c.touch
      BY <2>2, <3>3, InCall
    <3>5. c.step = "write" => c.key \in c.touch
      BY <3>4, Zenon DEF Directory!CallType
    <3> QED
      BY <3>2, <3>3, <3>4, <3>5 DEF Directory!Shares, Directory!Writes
  <2>3. CASE dirCall[q] = Directory!Idle
    BY <2>3 DEF Directory!Shares, Directory!Writes
  <2> QED
    BY <2>1, <2>2, <2>3
<1>3. Directory!SettledInv
  BY DEF Directory!DirInv
<1> QED
  BY <1>1, <1>2, <1>3 DEF Directory!SettledInv

\* The directories of a key are made.
LEMMA MakeDirsStep ==
  ASSUME Directory!DirInv, NEW p \in Process, Directory!MakeDirs(p)
  PROVE  Directory!DirInv'
<1>1. PICK c : c = dirCall[p]
  OBVIOUS
<1>2. c # Directory!Idle /\ c.step = "mkdir"
  BY <1>1 DEF Directory!MakeDirs
<1>3. /\ Directory!CallInv(c) /\ Directory!CallType(c)
      /\ c = [op |-> c.op, step |-> c.step, key |-> c.key, vals |-> c.vals,
              todo |-> c.todo, linked |-> c.linked, touch |-> c.touch, shared |-> c.shared]
  BY <1>1, <1>2, InCall
<1>4. CASE \E n \in Directory!Above(c.key) : Directory!IsFile(tree, n)
  <2>1. Directory!Raise(p) /\ UNCHANGED tree
    BY <1>1, <1>4 DEF Directory!MakeDirs
  <2> QED
    BY <1>1, <1>2, <2>1, RaiseStep
<1>5. CASE \A n \in Directory!Above(c.key) : ~Directory!IsFile(tree, n)
  <2>1. /\ tree' = [n \in DOMAIN tree \cup Directory!Above(c.key) |->
                      IF n \in Directory!Above(c.key) THEN Directory!Dir ELSE tree[n]]
        /\ Directory!Go(p, "open") /\ UNCHANGED <<meant, risk>>
    BY <1>1, <1>5 DEF Directory!MakeDirs
  <2>2. PICK d : d = [c EXCEPT !.step = "open"]
    OBVIOUS
  <2>3. dirCall' = [dirCall EXCEPT ![p] = d]
    BY <1>1, <2>1, <2>2 DEF Directory!Go
  <2>4. /\ d.op = c.op /\ d.step = "open" /\ d.key = c.key /\ d.vals = c.vals
        /\ d.todo = c.todo /\ d.linked = c.linked /\ d.touch = c.touch /\ d.shared = c.shared
        /\ d = [op |-> d.op, step |-> d.step, key |-> d.key, vals |-> d.vals,
                todo |-> d.todo, linked |-> d.linked, touch |-> d.touch, shared |-> d.shared]
    BY <1>3, <2>2
  <2>5. c.key \in FileKey /\ Directory!CallType(d)
    BY <1>2, <1>3, <2>4, Zenon DEF Directory!CallType
  <2>6. /\ Directory!TreeInv' /\ \A n : Kept(n)
        /\ \A n : Directory!IsDir(tree, n) => Directory!IsDir(tree, n)'
        /\ \A n : n \in DOMAIN tree' /\ n \notin DOMAIN tree => Directory!IsDir(tree, n)'
    BY <1>5, <2>1, <2>5, TreeMakes DEF Directory!DirInv
  <2>7. ASSUME NEW k \in d.touch \ d.shared PROVE Directory!Alone(d, k)'
    <3>1. Directory!Alone(c, k) /\ ~Directory!Writes(c, k) /\ ~Directory!Writes(d, k)
      BY <1>2, <1>3, <2>4, <2>7 DEF Directory!CallInv, Directory!Writes
    <3>2. d.op = "save" => Directory!IsFile(tree, k) /\ (k \in DOMAIN d.vals => d.vals[k] = tree[k])
      BY <2>4, <3>1, Zenon DEF Directory!Alone
    <3> QED
      BY <2>4, <2>6, <3>1, <3>2, Zenon DEF Directory!Alone, Directory!Writes, Kept
  <2>8. Directory!CallInv(d)'
    BY <2>4, <2>5, <2>7, Zenon DEF Directory!CallInv, Directory!CallType
  <2>9. OthersKept(p)
    BY <2>1, <2>6 DEF OthersKept
  <2>10. \A k \in FileKey : Directory!IsFile(tree, k) => Directory!IsFile(tree, k)'
    BY <2>6 DEF Kept
  <2>11. meant' = [k \in FileKey |-> meant'[k]]
    BY <2>1 DEF Directory!DirInv
  <2>12. ASSUME NEW k, Directory!Settled(k) PROVE Directory!Settled(k)'
    BY <2>1, <2>6, <2>12 DEF Directory!Settled, Directory!IsDir, Directory!IsFile, Directory!Content, Kept
  <2>13. ASSUME NEW k \in FileKey \ risk', ~Directory!Shares(d, k)
         PROVE  /\ k \notin risk /\ (Directory!Settled(k) => Directory!Settled(k)')
                /\ ~Directory!Shares(dirCall[p], k) /\ ~Directory!Writes(dirCall[p], k)
    <3>1. d # Directory!Idle
      BY <2>5, NotIdle
    <3> QED
      BY <1>1, <1>2, <2>1, <2>4, <2>12, <2>13, <3>1 DEF Directory!Shares, Directory!Writes
  <2> QED
    BY <1>1, <1>2, <2>3, <2>4, <2>6, <2>8, <2>9, <2>10, <2>11, <2>13, OneCall
<1> QED
  BY <1>4, <1>5

\* The file of a key is opened, which empties it.
LEMMA OpenStep ==
  ASSUME Directory!DirInv, NEW p \in Process, Directory!Open(p)
  PROVE  Directory!DirInv'
<1>1. PICK c : c = dirCall[p]
  OBVIOUS
<1>2. c # Directory!Idle /\ c.step = "open"
  BY <1>1, Zenon DEF Directory!Open
<1>3. /\ Directory!CallInv(c) /\ Directory!CallType(c)
      /\ c = [op |-> c.op, step |-> c.step, key |-> c.key, vals |-> c.vals,
              todo |-> c.todo, linked |-> c.linked, touch |-> c.touch, shared |-> c.shared]
      /\ c.touch \subseteq FileKey
  BY <1>1, <1>2, InCall
<1>4. c.key \in c.touch /\ c.key \in FileKey
  BY <1>2, <1>3, Zenon DEF Directory!CallType
<1>5. CASE Directory!IsDir(tree, c.key) \/ ~Directory!IsDir(tree, Directory!Parent(c.key))
  <2>1. Directory!Raise(p) /\ UNCHANGED tree
    BY <1>1, <1>5, Zenon DEF Directory!Open
  <2> QED
    BY <1>1, <1>2, <2>1, RaiseStep
<1>6. CASE ~Directory!IsDir(tree, c.key) /\ Directory!IsDir(tree, Directory!Parent(c.key))
  <2>1. /\ tree' = Directory!Put(tree, c.key, "") /\ UNCHANGED <<meant, risk>>
        /\ dirCall' = [dirCall EXCEPT ![p].step = "write", ![p].linked = TRUE]
    BY <1>1, <1>6, Zenon DEF Directory!Open
  <2>2. PICK d : d = [c EXCEPT !.step = "write", !.linked = TRUE]
    OBVIOUS
  <2>3. dirCall' = [dirCall EXCEPT ![p] = d]
    BY <1>1, <2>1, <2>2, Zenon DEF Directory!DirInv
  <2>4. /\ d.op = c.op /\ d.step = "write" /\ d.key = c.key /\ d.vals = c.vals
        /\ d.todo = c.todo /\ d.linked = TRUE /\ d.touch = c.touch
        /\ d.shared = c.shared
        /\ d = [op |-> d.op, step |-> d.step, key |-> d.key, vals |-> d.vals,
                todo |-> d.todo, linked |-> d.linked, touch |-> d.touch, shared |-> d.shared]
    BY <1>3, <2>2
  <2>5. Directory!CallType(d)
    BY <1>2, <1>3, <1>4, <2>4, Zenon DEF Directory!CallType
  <2>6. /\ Directory!TreeInv' /\ Directory!IsFile(tree, c.key)' /\ tree'[c.key] = ""
        /\ \A n : n # c.key => (n \in DOMAIN tree' <=> n \in DOMAIN tree)
        /\ \A n \in DOMAIN tree : n # c.key => tree'[n] = tree[n]
    BY <1>4, <1>6, <2>1, TreePuts, Zenon DEF Directory!DirInv
  <2>7. \A n : n # c.key => Kept(n)
    BY <2>6, Zenon DEF Kept, Directory!IsFile
  <2>8. ASSUME NEW k \in d.touch \ d.shared PROVE Directory!Alone(d, k)'
    <3>1. /\ Directory!Alone(c, k) /\ ~Directory!Writes(c, k)
          /\ Directory!Writes(d, k) <=> k = c.key
      BY <1>2, <1>3, <2>4, <2>5, <2>8, NotIdle DEF Directory!CallInv, Directory!Writes
    <3>2. ASSUME d.op = "save"
          PROVE  Directory!IsFile(tree, k) /\ (k \in DOMAIN d.vals => d.vals[k] = tree[k])
      BY <2>4, <3>1, <3>2, Zenon DEF Directory!Alone
    <3>3. CASE k = c.key
      <4>1. ASSUME d.op = "save", k \in DOMAIN d.vals
            PROVE  d.vals[k] # None /\ (k \notin risk => d.vals[k] = meant[k])
        <5>1. Directory!IsFile(tree, k) /\ d.vals[k] = tree[k]
          BY <3>2, <4>1
        <5>2. tree[k] \in FileValue \cup {"", Directory!Dir}
          BY <5>1, Zenon DEF Directory!DirInv, Directory!TreeInv, Directory!IsFile
        <5>3. k \notin risk => Directory!Settled(k)
          BY <1>1, <1>2, <2>4, <2>8, <3>1, AloneSettled
        <5>4. k \notin risk => tree[k] = meant[k]
          BY <5>1, <5>3 DEF Directory!Settled, Directory!IsFile, Directory!IsDir, Directory!Content
        <5> QED
          BY <5>1, <5>2, <5>4, DirAssumption, Zenon
      <4>2. /\ Directory!IsFile(tree, k)' /\ tree'[k] = "" /\ d.linked /\ risk' = risk
            /\ meant' = meant
        BY <2>1, <2>4, <2>6, <3>3, Zenon
      <4> QED
        BY <3>1, <3>3, <4>1, <4>2, Zenon DEF Directory!Alone, Directory!Writes
    <3>4. CASE k # c.key
      <4>1. Kept(k) /\ ~Directory!Writes(d, k)
        BY <2>7, <3>1, <3>4
      <4>2. d.op = "save" => /\ Directory!IsFile(tree, k)'
                             /\ k \in DOMAIN d.vals => d.vals[k] = tree'[k]
        BY <3>2, <4>1 DEF Kept
      <4> QED
        BY <4>1, <4>2, Zenon DEF Directory!Alone, Directory!Writes
    <3> QED
      BY <3>3, <3>4
  <2>9. Directory!CallInv(d)'
    <3>1. Directory!IsFile(tree, d.key)'
      BY <2>4, <2>6, Zenon
    <3> QED
      BY <2>5, <2>8, <3>1, Zenon DEF Directory!CallInv, Directory!CallType
  <2>10. OthersKept(p)
    <3>1. c.key \in Directory!Touched(p)
      BY <1>1, <1>2, <1>4 DEF Directory!Touched
    <3> QED
      BY <2>1, <2>7, <3>1, Zenon DEF OthersKept
  <2>11. \A k \in FileKey : Directory!IsFile(tree, k) => Directory!IsFile(tree, k)'
    BY <2>6, <2>7, Zenon DEF Kept
  <2>12. meant' = [k \in FileKey |-> meant'[k]]
    BY <2>1, Zenon DEF Directory!DirInv
  <2>13. ASSUME NEW k \in FileKey \ risk', ~Directory!Shares(d, k), ~Directory!Writes(d, k)
         PROVE  /\ k \notin risk /\ (Directory!Settled(k) => Directory!Settled(k)')
                /\ ~Directory!Shares(dirCall[p], k) /\ ~Directory!Writes(dirCall[p], k)
    <3>1. d # Directory!Idle
      BY <2>5, NotIdle
    <3>2. k # c.key
      BY <2>4, <2>13, <3>1 DEF Directory!Writes
    <3>3. (k \in DOMAIN tree' <=> k \in DOMAIN tree) /\ (k \in DOMAIN tree => tree'[k] = tree[k])
      BY <2>6, <3>2, Zenon
    <3>4. Directory!Settled(k) => Directory!Settled(k)'
      BY <2>1, <3>3, Zenon DEF Directory!Settled, Directory!IsDir, Directory!Content
    <3> QED
      BY <1>1, <1>2, <2>1, <2>4, <2>13, <3>1, <3>4, Zenon DEF Directory!Shares, Directory!Writes
  <2> QED
    BY <1>1, <1>2, <2>3, <2>4, <2>6, <2>9, <2>10, <2>11, <2>12, <2>13, OneCall, Zenon
<1> QED
  BY <1>5, <1>6

\* What writing to an open file makes of the tree.
LEMMA TreeWritten ==
  ASSUME Directory!DirInv, NEW c, NEW v, Directory!CallInv(c), c.step = "write",
         c.key \in FileKey, v \in FileValue \cup {""},
         IF v \notin {None, ""} /\ c.linked THEN tree' = Directory!Put(tree, c.key, v)
         ELSE UNCHANGED tree,
         c.key \notin c.shared => c.linked /\ Directory!IsFile(tree, c.key) /\ tree[c.key] = ""
  PROVE  /\ Directory!TreeInv'
         /\ \A n : n # c.key => (n \in DOMAIN tree' <=> n \in DOMAIN tree)
         /\ \A n \in DOMAIN tree : n # c.key => tree'[n] = tree[n]
         /\ Directory!IsFile(tree, c.key) => Directory!IsFile(tree, c.key)'
         /\ c.key \notin c.shared => Directory!IsFile(tree, c.key)' /\ tree'[c.key] = v
<1>1. Directory!TreeInv
  BY Zenon DEF Directory!DirInv
<1>2. CASE v \notin {None, ""} /\ c.linked
  <2>1. tree' = Directory!Put(tree, c.key, v)
    BY <1>2, Zenon
  <2>2. Directory!IsFile(tree, c.key)
    BY <1>2, Zenon DEF Directory!CallInv
  <2>3. ~Directory!IsDir(tree, c.key)
    BY <2>2, Zenon DEF Directory!IsFile, Directory!IsDir
  <2>4. Directory!IsDir(tree, Directory!Parent(c.key))
    BY <1>1, <2>2, KeyFacts, Zenon DEF Directory!TreeInv, Directory!IsFile
  <2> QED
    BY <1>1, <2>1, <2>3, <2>4, TreePuts, Zenon
<1>3. CASE ~(v \notin {None, ""} /\ c.linked)
  <2>1. tree' = tree
    BY <1>3, Zenon
  <2>2. Directory!TreeInv'
    BY <1>1, <2>1, Zenon DEF Directory!TreeInv, Directory!IsDir
  <2>3. c.key \notin c.shared => v = "" /\ tree[c.key] = v
    BY <1>3, DirAssumption, Zenon
  <2> QED
    BY <2>1, <2>2, <2>3, Zenon DEF Directory!IsFile
<1> QED
  BY <1>2, <1>3, Zenon

\* A value is written.
LEMMA WriteStep ==
  ASSUME Directory!DirInv, NEW p \in Process, Directory!Write(p)
  PROVE  Directory!DirInv'
<1>1. PICK c : c = dirCall[p]
  OBVIOUS
<1>2. PICK v : v = c.vals[c.key]
  OBVIOUS
<1>3. /\ c # Directory!Idle /\ c.step = "write"
      /\ IF v \notin {None, ""} /\ c.linked THEN tree' = Directory!Put(tree, c.key, v)
         ELSE UNCHANGED tree
      /\ CASE v = None -> Directory!Raise(p)
           [] v # None /\ c.op = "set" -> Directory!Return(p, c.vals)
           [] OTHER -> Directory!Go(p, "next") /\ UNCHANGED <<meant, risk, dirty>>
  BY <1>1, <1>2, Zenon DEF Directory!Write
<1>4. /\ Directory!CallInv(c) /\ Directory!CallType(c)
      /\ c = [op |-> c.op, step |-> c.step, key |-> c.key, vals |-> c.vals,
              todo |-> c.todo, linked |-> c.linked, touch |-> c.touch, shared |-> c.shared]
      /\ c.touch \subseteq FileKey /\ c.shared \subseteq c.touch
  BY <1>1, <1>3, InCall, Zenon
<1>5. /\ c.key \in c.touch /\ c.key \in FileKey /\ c.op \in {"set", "save"}
      /\ c.op = "set" => DOMAIN c.vals = {c.key} /\ v \in FileValue
      /\ c.op = "save" => c.touch \subseteq DOMAIN c.vals /\ v \in FileValue \cup {"", None}
  BY <1>2, <1>3, <1>4, Zenon DEF Directory!CallType
<1>6. /\ c.key \notin c.shared =>
           /\ c.linked /\ Directory!IsFile(tree, c.key) /\ tree[c.key] = ""
           /\ c.op = "save" => v # None /\ (c.key \notin risk => v = meant[c.key])
  <2>1. Directory!Writes(c, c.key)
    BY <1>3, Zenon DEF Directory!Writes
  <2> QED
    BY <1>2, <1>4, <1>5, <2>1, Zenon DEF Directory!CallInv, Directory!Alone
<1>7. Directory!Touched(p) = c.touch
  BY <1>1, <1>3, Zenon DEF Directory!Touched
<1>8. CASE v = None
  <2>1. c.op = "save" /\ c.key \in c.shared
    BY <1>5, <1>6, <1>8, DirAssumption, Zenon
  <2>2. Directory!Raise(p) /\ UNCHANGED tree
    BY <1>3, <1>8
  <2> QED
    BY <1>1, <1>3, <2>1, <2>2, RaiseStep, Zenon
<1>9. ASSUME v # None
      PROVE  /\ v \in FileValue \cup {""} /\ Directory!TreeInv'
             /\ \A n : n # c.key => (n \in DOMAIN tree' <=> n \in DOMAIN tree)
             /\ \A n \in DOMAIN tree : n # c.key => tree'[n] = tree[n]
             /\ Directory!IsFile(tree, c.key) => Directory!IsFile(tree, c.key)'
             /\ c.key \notin c.shared => Directory!IsFile(tree, c.key)' /\ tree'[c.key] = v
  <2>1. v \in FileValue \cup {""}
    BY <1>5, <1>9, Zenon
  <2> QED
    BY <1>3, <1>4, <1>5, <1>6, <2>1, TreeWritten, Zenon
<1>10. ASSUME v # None
       PROVE  /\ \A k \in FileKey : Directory!IsFile(tree, k) => Directory!IsFile(tree, k)'
              /\ \A n : n # c.key => Kept(n)
  BY <1>9, <1>10, Zenon DEF Kept, Directory!IsFile
<1>11. CASE v # None /\ c.op = "set"
  <2>1. /\ dirCall' = [dirCall EXCEPT ![p] = Directory!Idle]
        /\ meant' = [k \in FileKey |-> IF k \in {c.key} THEN c.vals[k] ELSE meant[k]]
        /\ risk' = (risk \ {c.key}) \cup c.shared
    BY <1>1, <1>3, <1>5, <1>11, Zenon DEF Directory!Return
  <2>2. OthersKept(p)
    BY <1>5, <1>7, <1>10, <1>11, <2>1 DEF OthersKept
  <2>3. ASSUME NEW k \in FileKey \ risk'
        PROVE  \/ Directory!Settled(k)'
               \/ /\ k \notin risk /\ (Directory!Settled(k) => Directory!Settled(k)')
                  /\ ~Directory!Shares(dirCall[p], k) /\ ~Directory!Writes(dirCall[p], k)
    <3>1. CASE k = c.key
      <4>1. Directory!IsFile(tree, k)' /\ tree'[k] = v /\ meant'[k] = v
        BY <1>2, <1>9, <1>11, <2>1, <2>3, <3>1, Zenon
      <4> QED
        BY <4>1 DEF Directory!Settled, Directory!IsDir, Directory!IsFile, Directory!Content
    <3>2. CASE k # c.key
      <4>1. (k \in DOMAIN tree' <=> k \in DOMAIN tree) /\ (k \in DOMAIN tree => tree'[k] = tree[k])
        BY <1>9, <1>11, <3>2, Zenon
      <4>2. meant'[k] = meant[k]
        BY <2>1, <2>3, <3>2
      <4>3. Directory!Settled(k) => Directory!Settled(k)'
        BY <4>1, <4>2 DEF Directory!Settled, Directory!IsDir, Directory!Content
      <4> QED
        BY <1>1, <2>1, <2>3, <3>2, <4>3 DEF Directory!Shares, Directory!Writes
    <3> QED
      BY <3>1, <3>2
  <2>4. meant' = [k \in FileKey |-> meant'[k]]
    BY <2>1
  <2> QED
    BY <1>1, <1>3, <1>9, <1>10, <1>11, <2>1, <2>2, <2>3, <2>4, OneCall, Zenon
<1>12. CASE v # None /\ c.op = "save"
  <2>1. Directory!Go(p, "next") /\ UNCHANGED <<meant, risk>>
    BY <1>3, <1>12, Zenon
  <2>2. PICK d : d = [c EXCEPT !.step = "next"]
    OBVIOUS
  <2>3. dirCall' = [dirCall EXCEPT ![p] = d]
    BY <1>1, <2>1, <2>2 DEF Directory!Go
  <2>4. /\ d.op = c.op /\ d.step = "next" /\ d.key = c.key /\ d.vals = c.vals
        /\ d.todo = c.todo /\ d.linked = c.linked /\ d.touch = c.touch
        /\ d.shared = c.shared
        /\ d = [op |-> d.op, step |-> d.step, key |-> d.key, vals |-> d.vals,
                todo |-> d.todo, linked |-> d.linked, touch |-> d.touch, shared |-> d.shared]
    BY <1>4, <2>2
  <2>5. Directory!CallType(d)
    BY <1>3, <1>4, <1>12, <2>4, Zenon DEF Directory!CallType
  <2>6. ASSUME NEW k \in d.touch \ d.shared PROVE Directory!Alone(d, k)'
    <3>1. Directory!IsFile(tree, k)' /\ (k \in DOMAIN d.vals => d.vals[k] = tree'[k])
      <4>1. CASE k = c.key
        BY <1>2, <1>9, <1>12, <2>4, <2>6, <4>1, Zenon
      <4>2. CASE k # c.key
        <5>1. Directory!Alone(c, k) /\ ~Directory!Writes(c, k)
          BY <1>4, <2>4, <2>6, <4>2 DEF Directory!CallInv, Directory!Writes
        <5>2. Kept(k)
          BY <1>10, <1>12, <4>2
        <5> QED
          BY <1>12, <2>4, <5>1, <5>2, Zenon DEF Directory!Alone, Kept
      <4> QED
        BY <4>1, <4>2
    <3> QED
      BY <2>4, <3>1 DEF Directory!Alone, Directory!Writes
  <2>7. Directory!CallInv(d)'
    BY <2>4, <2>5, <2>6, Zenon DEF Directory!CallInv, Directory!CallType
  <2>8. OthersKept(p)
    BY <1>5, <1>7, <1>10, <1>12, <2>1, Zenon DEF OthersKept
  <2>9. ASSUME NEW k \in FileKey \ risk', ~Directory!Shares(d, k)
        PROVE  \/ Directory!Settled(k)'
               \/ /\ k \notin risk /\ (Directory!Settled(k) => Directory!Settled(k)')
                  /\ ~Directory!Shares(dirCall[p], k) /\ ~Directory!Writes(dirCall[p], k)
    <3>1. k \notin c.shared
      BY <2>4, <2>5, <2>9, NotIdle DEF Directory!Shares
    <3>2. CASE k = c.key
      <4>1. Directory!IsFile(tree, k)' /\ tree'[k] = v /\ meant'[k] = v
        BY <1>6, <1>9, <1>12, <2>1, <2>9, <3>1, <3>2, Zenon
      <4> QED
        BY <4>1 DEF Directory!Settled, Directory!IsDir, Directory!IsFile, Directory!Content
    <3>3. CASE k # c.key
      <4>1. (k \in DOMAIN tree' <=> k \in DOMAIN tree) /\ (k \in DOMAIN tree => tree'[k] = tree[k])
        BY <1>9, <1>12, <3>3, Zenon
      <4>2. Directory!Settled(k) => Directory!Settled(k)'
        BY <2>1, <4>1 DEF Directory!Settled, Directory!IsDir, Directory!Content
      <4> QED
        BY <1>1, <2>1, <2>9, <3>1, <3>3, <4>2 DEF Directory!Shares, Directory!Writes
    <3> QED
      BY <3>2, <3>3
  <2>10. meant' = [k \in FileKey |-> meant'[k]]
    BY <2>1 DEF Directory!DirInv
  <2> QED
    BY <1>1, <1>3, <1>9, <1>10, <1>12, <2>3, <2>4, <2>7, <2>8, <2>9, <2>10, OneCall, Zenon
<1> QED
  BY <1>5, <1>8, <1>11, <1>12, Zenon

\* delete() looks at its node.
LEMMA LookStep ==
  ASSUME Directory!DirInv, NEW p \in Process, Directory!Look(p)
  PROVE  Directory!DirInv'
<1>1. PICK c : c = dirCall[p]
  OBVIOUS
<1>2. c # Directory!Idle /\ c.step = "look" /\ UNCHANGED tree
  BY <1>1 DEF Directory!Look
<1>3. /\ Directory!CallInv(c) /\ Directory!CallType(c)
      /\ c = [op |-> c.op, step |-> c.step, key |-> c.key, vals |-> c.vals,
              todo |-> c.todo, linked |-> c.linked, touch |-> c.touch, shared |-> c.shared]
      /\ c.touch \subseteq FileKey /\ c.shared \subseteq c.touch
  BY <1>1, <1>2, InCall
<1>4. c.op = "delete" /\ c.key \in FileKey /\ c.touch = {c.key}
  BY <1>2, <1>3 DEF Directory!CallType
<1>5. CASE c.key \notin DOMAIN tree
  <2>1. PICK w : w = [k \in c.touch |-> None]
    OBVIOUS
  <2>2. Directory!Return(p, w)
    BY <1>1, <1>5, <2>1 DEF Directory!Look, Directory!IsDir
  <2>3. /\ dirCall' = [dirCall EXCEPT ![p] = Directory!Idle]
        /\ meant' = [k \in FileKey |-> IF k \in c.touch THEN None ELSE meant[k]]
        /\ risk' = (risk \ c.touch) \cup c.shared
    BY <1>1, <2>1, <2>2 DEF Directory!Return
  <2>4. ASSUME NEW k \in c.touch PROVE k \notin DOMAIN tree
    BY <1>4, <1>5, <2>4
  <2>5. Directory!TreeInv'
    BY <1>2, Zenon DEF Directory!DirInv, Directory!TreeInv, Directory!IsDir
  <2>6. Directory!Touched(p) = c.touch
    BY <1>1, <1>2 DEF Directory!Touched
  <2>7. OthersKept(p)
    BY <1>2, <2>3, <2>6 DEF OthersKept, Kept, Directory!IsFile
  <2>8. ASSUME NEW k \in FileKey \ risk'
        PROVE  \/ Directory!Settled(k)'
               \/ /\ k \notin risk /\ (Directory!Settled(k) => Directory!Settled(k)')
                  /\ ~Directory!Shares(dirCall[p], k) /\ ~Directory!Writes(dirCall[p], k)
    <3>1. CASE k \in c.touch
      <4>1. k \notin DOMAIN tree' /\ meant'[k] = None
        BY <1>2, <2>3, <2>4, <3>1
      <4> QED
        BY <4>1 DEF Directory!Settled, Directory!IsDir, Directory!Content
    <3>2. CASE k \notin c.touch
      <4>1. Directory!Settled(k) => Directory!Settled(k)'
        BY <1>2, <2>3, <3>2 DEF Directory!Settled, Directory!IsDir, Directory!Content
      <4> QED
        BY <1>1, <1>2, <1>3, <2>3, <2>8, <3>2, <4>1 DEF Directory!Shares, Directory!Writes
    <3> QED
      BY <3>1, <3>2
  <2>9. meant' = [k \in FileKey |-> meant'[k]]
    BY <2>3
  <2>10. \A k \in FileKey : Directory!IsFile(tree, k) => Directory!IsFile(tree, k)'
    BY <1>2 DEF Directory!IsFile
  <2> QED
    BY <1>1, <1>2, <2>3, <2>5, <2>7, <2>8, <2>9, <2>10, OneCall
<1>6. CASE c.key \in DOMAIN tree /\ Directory!IsDir(tree, c.key)
  <2>1. Directory!Raise(p)
    BY <1>1, <1>6 DEF Directory!Look
  <2> QED
    BY <1>1, <1>2, <2>1, RaiseStep
<1>7. CASE c.key \in DOMAIN tree /\ ~Directory!IsDir(tree, c.key)
  <2>1. PICK d : d = [c EXCEPT !.step = "remove"]
    OBVIOUS
  <2>2. dirCall' = [dirCall EXCEPT ![p] = d] /\ UNCHANGED <<meant, risk>>
    BY <1>1, <1>7, <2>1 DEF Directory!Look, Directory!Go
  <2>3. /\ d.op = c.op /\ d.step = "remove" /\ d.key = c.key /\ d.vals = c.vals
        /\ d.todo = c.todo /\ d.linked = c.linked /\ d.touch = c.touch
        /\ d.shared = c.shared
        /\ d = [op |-> d.op, step |-> d.step, key |-> d.key, vals |-> d.vals,
                todo |-> d.todo, linked |-> d.linked, touch |-> d.touch, shared |-> d.shared]
    BY <1>3, <2>1
  <2>4. Directory!CallType(d)
    BY <1>2, <1>3, <1>4, <2>3 DEF Directory!CallType
  <2> QED
    BY <1>1, <1>2, <1>4, <2>2, <2>3, <2>4, GoStep
<1> QED
  BY <1>5, <1>6, <1>7

\* A file is removed, or is not one any more.
LEMMA RemoveStep ==
  ASSUME Directory!DirInv, NEW p \in Process, Directory!RemoveNode(p)
  PROVE  Directory!DirInv'
<1>1. PICK c : c = dirCall[p]
  OBVIOUS
<1>2. PICK G : G = {c.key}
  OBVIOUS
<1>3. c # Directory!Idle /\ c.step = "remove" /\ Directory!Removes(p, G)
  BY <1>1, <1>2 DEF Directory!RemoveNode, Directory!Removes
<1>4. /\ Directory!CallInv(c) /\ Directory!CallType(c)
      /\ c.touch \subseteq FileKey /\ c.shared \subseteq c.touch
  BY <1>1, <1>3, InCall
<1>5. c.op = "delete" /\ c.key \in FileKey /\ c.touch = {c.key}
  BY <1>3, <1>4, Zenon DEF Directory!CallType
<1>6. CASE ~Directory!IsFile(tree, c.key)
  <2>1. Directory!Raise(p) /\ UNCHANGED tree
    BY <1>1, <1>3, <1>6 DEF Directory!Removes
  <2> QED
    BY <1>1, <1>3, <2>1, RaiseStep
<1>7. CASE Directory!IsFile(tree, c.key)
  <2>1. PICK A : A = [q \in Process |->
                        IF q # p /\ dirCall[q] # Directory!Idle /\ dirCall[q].key \in G
                        THEN [dirCall[q] EXCEPT !.linked = FALSE] ELSE dirCall[q]]
    OBVIOUS
  <2>2. /\ tree' = [n \in DOMAIN tree \ G |-> tree[n]]
        /\ dirCall' = [A EXCEPT ![p] = Directory!Idle]
        /\ meant' = [k \in FileKey |-> IF k \in c.touch THEN None ELSE meant[k]]
        /\ risk' = (risk \ c.touch) \cup c.shared
    BY <1>1, <1>3, <1>7, <2>1 DEF Directory!Removes
  <2>3. /\ dirCall' = [q \in Process |-> dirCall'[q]] /\ dirCall'[p] = Directory!Idle
        /\ \A q \in Process \ {p} :
             dirCall'[q] = IF dirCall[q] # Directory!Idle /\ dirCall[q].key \in G
                           THEN [dirCall[q] EXCEPT !.linked = FALSE] ELSE dirCall[q]
    BY <2>1, <2>2
  <2>4. Directory!TreeInv'
    BY <1>2, <1>5, <1>7, <2>2, TreeLoses DEF Directory!DirInv
  <2>5. ASSUME NEW k \in FileKey, k \in G PROVE k \in c.touch
    BY <1>2, <1>5, <2>5
  <2>6. ASSUME NEW k \in FileKey, k \notin c.touch
        PROVE  (k \in DOMAIN tree' <=> k \in DOMAIN tree) /\ (k \in DOMAIN tree => tree'[k] = tree[k])
    BY <1>2, <1>5, <2>2, <2>6
  <2>7. ASSUME NEW k \in c.touch PROVE k \notin DOMAIN tree' /\ meant'[k] = None
    BY <1>2, <1>4, <1>5, <2>2, <2>7
  <2>8. Directory!Touched(p) = c.touch
    BY <1>1, <1>3 DEF Directory!Touched
  <2>9. OthersKept(p)
    BY <2>2, <2>6, <2>8 DEF OthersKept, Kept, Directory!IsFile
  <2>10. ASSUME NEW q \in Process \ {p}, dirCall[q] # Directory!Idle
         PROVE  /\ OtherCall(dirCall[q], dirCall'[q])
                /\ \A e : e = dirCall'[q] => Directory!CallInv(e)'
    <3>1. PICK a : a = dirCall[q]
      OBVIOUS
    <3>2. PICK e : e = dirCall'[q]
      OBVIOUS
    <3>3. /\ Directory!CallInv(a) /\ Directory!CallType(a)
          /\ a = [op |-> a.op, step |-> a.step, key |-> a.key, vals |-> a.vals,
                  todo |-> a.todo, linked |-> a.linked, touch |-> a.touch, shared |-> a.shared]
          /\ a.touch \subseteq FileKey /\ a.shared \subseteq a.touch
      BY <2>10, <3>1, InCall
    <3>4. e = IF a.key \in G THEN [a EXCEPT !.linked = FALSE] ELSE a
      BY <2>3, <2>10, <3>1, <3>2
    <3>5. /\ e.op = a.op /\ e.step = a.step /\ e.key = a.key /\ e.vals = a.vals
          /\ e.todo = a.todo /\ e.touch = a.touch /\ e.shared = a.shared
          /\ e.linked = IF a.key \in G THEN FALSE ELSE a.linked
          /\ e = [a EXCEPT !.linked = e.linked, !.shared = e.shared]
      <4>1. CASE a.key \in G
        <5>1. e = [a EXCEPT !.linked = FALSE]
          BY <3>4, <4>1
        <5> QED
          BY <3>3, <4>1, <5>1
      <4>2. CASE a.key \notin G
        BY <3>3, <3>4, <4>2
      <4> QED
        BY <4>1, <4>2
    <3>6. OtherCall(a, e)
      BY <3>3, <3>5 DEF OtherCall
    <3>7. a.step = "write" => a.key \in a.touch /\ a.key \in FileKey
      BY <3>3, Zenon DEF Directory!CallType
    <3>8. ASSUME e.step = "write", e.linked PROVE Directory!IsFile(tree, e.key)'
      <4>1. a.key \notin G /\ a.linked /\ Directory!IsFile(tree, a.key)
        BY <3>3, <3>5, <3>8 DEF Directory!CallInv
      <4> QED
        BY <2>2, <3>5, <4>1 DEF Directory!IsFile
    <3>9. ASSUME e.key \notin e.shared, e.step = "write", a.linked PROVE e.linked
      <4>1. a.key \in G => a.key \in Directory!Touched(p)
        BY <2>5, <2>8, <3>5, <3>7, <3>9
      <4>2. a.key \in Directory!Touched(q)
        BY <2>10, <3>1, <3>5, <3>7, <3>9 DEF Directory!Touched
      <4>3. Directory!Touched(q) \cap Directory!Touched(p) \subseteq a.shared
        BY <2>10, <3>1 DEF Directory!DirInv
      <4> QED
        BY <3>5, <3>9, <4>1, <4>2, <4>3
    <3>10. Directory!CallInv(e)'
      BY <2>9, <2>10, <3>1, <3>6, <3>8, <3>9, OtherCallKept
    <3> QED
      BY <3>1, <3>2, <3>6, <3>10
  <2>11. ASSUME NEW k \in FileKey \ risk'
         PROVE  \/ Directory!Settled(k)'
                \/ /\ k \notin risk /\ (Directory!Settled(k) => Directory!Settled(k)')
                   /\ ~Directory!Shares(dirCall[p], k) /\ ~Directory!Writes(dirCall[p], k)
    <3>1. CASE k \in c.touch
      BY <2>7, <3>1 DEF Directory!Settled, Directory!IsDir, Directory!Content
    <3>2. CASE k \notin c.touch
      <4>1. meant'[k] = meant[k]
        BY <2>2, <2>11, <3>2
      <4>2. Directory!Settled(k) => Directory!Settled(k)'
        BY <2>6, <2>11, <3>2, <4>1 DEF Directory!Settled, Directory!IsDir, Directory!Content
      <4> QED
        BY <1>1, <1>3, <1>4, <2>2, <2>11, <3>2, <4>2 DEF Directory!Shares, Directory!Writes
    <3> QED
      BY <3>1, <3>2
  <2>12. meant' = [k \in FileKey |-> meant'[k]]
    BY <2>2
  <2>13. ASSUME NEW q \in Process \ {p}, dirCall[q] = Directory!Idle
         PROVE  dirCall'[q] = Directory!Idle
    BY <2>3, <2>13
  <2> QED
    BY <2>3, <2>4, <2>9, <2>10, <2>11, <2>12, <2>13, DirStep
<1> QED
  BY <1>6, <1>7

\* save() reads a value.
LEMMA ReadStep ==
  ASSUME Directory!DirInv, NEW p \in Process, Directory!Read(p)
  PROVE  Directory!DirInv'
<1>1. PICK c : c = dirCall[p]
  OBVIOUS
<1>2. c # Directory!Idle /\ c.step = "read" /\ UNCHANGED tree
  BY <1>1 DEF Directory!Read
<1>3. /\ Directory!CallInv(c) /\ Directory!CallType(c)
      /\ c = [op |-> c.op, step |-> c.step, key |-> c.key, vals |-> c.vals,
              todo |-> c.todo, linked |-> c.linked, touch |-> c.touch, shared |-> c.shared]
  BY <1>1, <1>2, InCall
<1>4. /\ c.op = "save" /\ c.todo = c.touch
      /\ \A k \in DOMAIN c.vals : c.vals[k] \in FileValue \cup {"", None}
  BY <1>2, <1>3, Zenon DEF Directory!CallType
<1>5. CASE c.todo \ DOMAIN c.vals = {}
  <2>1. Directory!Go(p, "next") /\ UNCHANGED <<meant, risk>>
    BY <1>1, <1>5 DEF Directory!Read
  <2>2. PICK d : d = [c EXCEPT !.step = "next"]
    OBVIOUS
  <2>3. dirCall' = [dirCall EXCEPT ![p] = d]
    BY <1>1, <2>1, <2>2 DEF Directory!Go
  <2>4. /\ d.op = c.op /\ d.step = "next" /\ d.key = c.key /\ d.vals = c.vals
        /\ d.todo = c.todo /\ d.linked = c.linked /\ d.touch = c.touch
        /\ d.shared = c.shared
        /\ d = [op |-> d.op, step |-> d.step, key |-> d.key, vals |-> d.vals,
                todo |-> d.todo, linked |-> d.linked, touch |-> d.touch, shared |-> d.shared]
    BY <1>3, <2>2
  <2>5. Directory!CallType(d)
    BY <1>3, <1>4, <1>5, <2>4, Zenon DEF Directory!CallType
  <2> QED
    BY <1>1, <1>2, <2>1, <2>3, <2>4, <2>5, GoStep
<1>6. ASSUME NEW k \in c.todo, ~Directory!IsDir(tree, k), UNCHANGED <<meant, risk>>,
             dirCall' = [dirCall EXCEPT ![p].vals =
                           Directory!Put(c.vals, k, Directory!Content(tree, k))]
      PROVE  Directory!DirInv'
  <2>1. PICK w : w = Directory!Put(c.vals, k, Directory!Content(tree, k))
    OBVIOUS
  <2>2. PICK d : d = [c EXCEPT !.vals = w]
    OBVIOUS
  <2>3. dirCall' = [dirCall EXCEPT ![p] = d]
    BY <1>1, <1>6, <2>1, <2>2
  <2>4. /\ d.op = c.op /\ d.step = c.step /\ d.key = c.key /\ d.vals = w
        /\ d.todo = c.todo /\ d.linked = c.linked /\ d.touch = c.touch
        /\ d.shared = c.shared
        /\ d = [op |-> d.op, step |-> d.step, key |-> d.key, vals |-> d.vals,
                todo |-> d.todo, linked |-> d.linked, touch |-> d.touch, shared |-> d.shared]
    BY <1>3, <2>2
  <2>5. Directory!Content(tree, k) \in FileValue \cup {"", None}
    BY <1>6, Zenon DEF Directory!Content, Directory!IsDir, Directory!DirInv, Directory!TreeInv
  <2>6. /\ DOMAIN w = DOMAIN c.vals \cup {k} /\ w[k] = Directory!Content(tree, k)
        /\ \A j \in DOMAIN c.vals : j # k => w[j] = c.vals[j]
    BY <2>1 DEF Directory!Put
  <2>7. \A j \in DOMAIN w : w[j] \in FileValue \cup {"", None}
    BY <1>4, <2>5, <2>6, Zenon
  <2>8. Directory!CallType(d)
    BY <1>2, <1>3, <1>4, <2>4, <2>7, Zenon DEF Directory!CallType
  <2>9. ASSUME NEW j \in c.touch \ c.shared, j \in DOMAIN d.vals
        PROVE  \/ j \in DOMAIN c.vals /\ d.vals[j] = c.vals[j]
               \/ d.vals[j] = Directory!Content(tree, j)
    BY <2>4, <2>6, <2>9
  <2>10. UNCHANGED <<tree, meant, risk>> /\ c.step # "write" /\ d.step # "write"
    BY <1>2, <1>6, <2>4
  <2>11. d.op = c.op /\ d.touch = c.touch /\ d.shared = c.shared
    BY <2>4
  <2> QED
    BY <1>1, <1>2, <2>3, <2>8, <2>9, <2>10, <2>11, GoStep
<1>7. ASSUME Directory!Raise(p) PROVE Directory!DirInv'
  BY <1>1, <1>2, <1>7, RaiseStep
<1>8. CASE c.todo \ DOMAIN c.vals # {}
  <2>1. \E k \in c.todo \ DOMAIN c.vals :
          \/ /\ ~Directory!IsDir(tree, k)
             /\ dirCall' = [dirCall EXCEPT ![p].vals =
                              Directory!Put(c.vals, k, Directory!Content(tree, k))]
             /\ UNCHANGED <<meant, risk>>
          \/ Directory!Raise(p)
    BY <1>1, <1>8 DEF Directory!Read
  <2> QED
    BY <1>6, <1>7, <2>1
<1> QED
  BY <1>5, <1>8

\* save() turns to its next key, or is done.
LEMMA WriteNextStep ==
  ASSUME Directory!DirInv, NEW p \in Process, Directory!WriteNext(p)
  PROVE  Directory!DirInv'
<1>1. PICK c : c = dirCall[p]
  OBVIOUS
<1>2. c # Directory!Idle /\ c.step = "next" /\ UNCHANGED tree
  BY <1>1, Zenon DEF Directory!WriteNext
<1>3. /\ Directory!CallInv(c) /\ Directory!CallType(c)
      /\ c = [op |-> c.op, step |-> c.step, key |-> c.key, vals |-> c.vals,
              todo |-> c.todo, linked |-> c.linked, touch |-> c.touch, shared |-> c.shared]
      /\ c.touch \subseteq FileKey /\ c.shared \subseteq c.touch
  BY <1>1, <1>2, InCall
<1>4. c.op = "save" /\ c.todo \subseteq c.touch
  BY <1>2, <1>3, Zenon DEF Directory!CallType
<1>5. CASE c.todo = {}
  <2>1. PICK w : w = <<>>
    OBVIOUS
  <2>2. DOMAIN w = {}
    BY <2>1
  <2>3. Directory!Return(p, w)
    BY <1>1, <1>5, <2>1 DEF Directory!WriteNext
  <2>4. /\ dirCall' = [dirCall EXCEPT ![p] = Directory!Idle]
        /\ meant' = [k \in FileKey |-> meant[k]] /\ risk' = risk \cup c.shared
    BY <1>1, <2>2, <2>3 DEF Directory!Return
  <2>5. meant' = meant
    BY <2>4 DEF Directory!DirInv
  <2> QED
    BY <1>1, <1>2, <2>4, <2>5, QuietStep DEF Directory!Writes
<1>6. ASSUME NEW k \in c.todo, UNCHANGED <<meant, risk>>,
             dirCall' = [dirCall EXCEPT ![p].key = k, ![p].todo = c.todo \ {k},
                                        ![p].step = "mkdir"]
      PROVE  Directory!DirInv'
  <2>1. PICK b : b = c.todo \ {k}
    OBVIOUS
  <2>2. PICK d : d = [c EXCEPT !.key = k, !.todo = b, !.step = "mkdir"]
    OBVIOUS
  <2>3. dirCall' = [dirCall EXCEPT ![p] = d]
    BY <1>1, <1>6, <2>1, <2>2 DEF Directory!DirInv
  <2>4. /\ d.op = c.op /\ d.step = "mkdir" /\ d.key = k /\ d.vals = c.vals
        /\ d.todo = b /\ d.linked = c.linked /\ d.touch = c.touch
        /\ d.shared = c.shared
        /\ d = [op |-> d.op, step |-> d.step, key |-> d.key, vals |-> d.vals,
                todo |-> d.todo, linked |-> d.linked, touch |-> d.touch, shared |-> d.shared]
    BY <1>3, <2>2
  <2>5. Directory!CallType(d)
    BY <1>2, <1>3, <1>4, <1>6, <2>1, <2>4, Zenon DEF Directory!CallType
  <2>6. ASSUME NEW j \in c.touch \ c.shared, j \in DOMAIN d.vals
        PROVE  j \in DOMAIN c.vals /\ d.vals[j] = c.vals[j]
    BY <2>4, <2>6
  <2>7. UNCHANGED <<tree, meant, risk>> /\ c.step # "write" /\ d.step # "write"
    BY <1>2, <1>6, <2>4
  <2>8. d.op = c.op /\ d.touch = c.touch /\ d.shared = c.shared
    BY <2>4
  <2> QED
    BY <1>1, <1>2, <2>3, <2>5, <2>6, <2>7, <2>8, GoStep
<1>7. CASE c.todo # {}
  <2>1. \E k \in c.todo :
          /\ dirCall' = [dirCall EXCEPT ![p].key = k, ![p].todo = c.todo \ {k},
                                        ![p].step = "mkdir"]
          /\ UNCHANGED <<meant, risk>>
    BY <1>1, <1>7, Zenon DEF Directory!WriteNext
  <2> QED
    BY <1>6, <2>1, Zenon
<1> QED
  BY <1>5, <1>7

\* A process ends within a call.
LEMMA CrashStep ==
  ASSUME Directory!DirInv, NEW p \in Process, Directory!Crash(p)
  PROVE  Directory!DirInv'
<1>1. PICK c : c = dirCall[p]
  OBVIOUS
<1>2. /\ c # Directory!Idle /\ dirCall' = [dirCall EXCEPT ![p] = Directory!Idle]
      /\ risk' = risk \cup c.touch /\ UNCHANGED <<tree, meant>>
  BY <1>1 DEF Directory!Crash
<1>3. Directory!CallType(c) /\ c.shared \subseteq c.touch
  BY <1>1, <1>2, InCall
<1>4. c.step = "write" => c.key \in c.touch
  BY <1>3, Zenon DEF Directory!CallType
<1> QED
  BY <1>1, <1>2, <1>3, <1>4, QuietStep DEF Directory!Writes

\* The directory as it is at first.
LEMMA DirBegins ==
  ASSUME Directory!Init
  PROVE  Directory!DirInv
<1>1. PICK D : D = {Directory!Top} \cup
                   UNION {{SubSeq(k, 1, i) : i \in 1..Len(k)} : k \in DOMAIN FileStart}
  OBVIOUS
<1>2. /\ tree = [n \in D |-> IF n \in DOMAIN FileStart THEN FileStart[n] ELSE Directory!Dir]
      /\ dirCall = [p \in Process |-> Directory!Idle]
      /\ meant = [k \in FileKey |-> IF k \in DOMAIN FileStart THEN FileStart[k] ELSE None]
  BY <1>1 DEF Directory!Init
<1>3. \A k \in DOMAIN FileStart : k \in FileKey /\ FileStart[k] \in FileValue
  BY DirAssumption, Zenon
<1>4. ASSUME NEW n \in D
      PROVE  n \in Seq(Directory!Name) /\ \A m \in Directory!Above(n) : Directory!IsDir(tree, m)
  <2>1. CASE n = Directory!Top
    <3>1. n \in Seq(Directory!Name) /\ Len(n) = 0
      BY <2>1 DEF Directory!Top
    <3>2. Directory!Above(n) = {}
      BY <3>1 DEF Directory!Above
    <3> QED
      BY <3>1, <3>2
  <2>2. ASSUME NEW k \in DOMAIN FileStart, NEW i \in 1..Len(k), n = SubSeq(k, 1, i)
        PROVE  /\ n \in Seq(Directory!Name)
               /\ \A m \in Directory!Above(n) : Directory!IsDir(tree, m)
    <3>1. k \in Seq(Directory!Name)
      BY <1>3, KeyFacts
    <3>2. i \in 0..Len(k) /\ i \in Nat /\ Len(k) \in Nat
      BY <3>1
    <3>3. n \in Seq(Directory!Name) /\ Len(n) = i
      BY <2>2, <3>1, <3>2, PathBegins
    <3>4. ASSUME NEW m \in Directory!Above(n) PROVE Directory!IsDir(tree, m)
      <4>1. PICK j \in 0..(Len(n) - 1) : m = SubSeq(n, 1, j)
        BY <3>4 DEF Directory!Above
      <4>2. j \in 0..i /\ j \in 0..(Len(k) - 1) /\ j \in Nat
        BY <3>2, <3>3, <4>1
      <4>3. m = SubSeq(k, 1, j)
        BY <2>2, <3>1, <3>2, <4>1, <4>2, PathBeginsTwice
      <4>4. m \in Directory!Above(k)
        BY <4>2, <4>3 DEF Directory!Above
      <4>5. m \notin DOMAIN FileStart
        BY <4>4, DirAssumption, Zenon
      <4>6. m \in D
        <5>1. CASE j = 0
          <6>1. m \in Seq(Directory!Name) /\ Len(m) = 0
            BY <3>1, <4>2, <4>3, <5>1, PathBegins
          <6>2. m = Directory!Top
            BY <6>1, EmptySeq DEF Directory!Top
          <6> QED
            BY <1>1, <6>2
        <5>2. CASE j # 0
          <6>1. j \in 1..Len(k)
            BY <3>2, <4>2, <5>2
          <6> QED
            BY <1>1, <4>3, <6>1
        <5> QED
          BY <5>1, <5>2
      <4> QED
        BY <1>2, <4>5, <4>6 DEF Directory!IsDir
    <3> QED
      BY <3>3, <3>4
  <2> QED
    BY <1>1, <1>4, <2>1, <2>2
<1>5. Directory!TreeInv
  BY <1>2, <1>3, <1>4, Zenon DEF Directory!TreeInv
<1>6. ASSUME NEW k \in FileKey PROVE Directory!Settled(k)
  <2>1. CASE k \in DOMAIN FileStart
    <3>1. k \in Seq(Directory!Name) /\ k # Directory!Top
      BY KeyFacts
    <3>2. Len(k) \in 1..Len(k) /\ SubSeq(k, 1, Len(k)) = k
      <4>1. Len(k) \in Nat /\ Len(k) # 0
        BY <3>1, EmptySeq DEF Directory!Top
      <4> QED
        BY <3>1, <4>1, SubSeqFull
    <3>3. k \in D
      <4>1. k \in {SubSeq(k, 1, i) : i \in 1..Len(k)}
        BY <3>2, Zenon
      <4> QED
        BY <1>1, <2>1, <4>1
    <3>4. tree[k] = FileStart[k] /\ meant[k] = FileStart[k] /\ k \in DOMAIN tree
      BY <1>2, <2>1, <3>3
    <3>5. tree[k] # Directory!Dir
      BY <1>3, <2>1, <3>4, DirAssumption, Zenon
    <3> QED
      BY <3>4, <3>5 DEF Directory!Settled, Directory!IsDir, Directory!Content
  <2>2. CASE k \notin DOMAIN FileStart
    <3>1. meant[k] = None /\ (k \in DOMAIN tree => tree[k] = Directory!Dir)
      BY <1>2, <2>2
    <3> QED
      BY <3>1 DEF Directory!Settled, Directory!IsDir, Directory!Content
  <2> QED
    BY <2>1, <2>2
<1>7. meant = [k \in FileKey |-> meant[k]] /\ dirCall = [p \in Process |-> dirCall[p]]
  BY <1>2
<1>8. \A p \in Process : dirCall[p] = Directory!Idle
  BY <1>2, Zenon
<1> QED
  BY <1>5, <1>6, <1>7, <1>8 DEF Directory!DirInv, Directory!SettledInv, Directory!Touched

\* Every step.
LEMMA DirectoryStep ==
  ASSUME Directory!DirInv, Directory!Next
  PROVE  Directory!DirInv'
<1> SUFFICES ASSUME NEW p \in Process,
                    \/ \E k \in FileKey : \/ \E v \in FileValue : Directory!Set(p, k, v)
                                          \/ Directory!Delete(p, k)
                    \/ Directory!MakeDirs(p) \/ Directory!Open(p) \/ Directory!Write(p)
                    \/ Directory!Look(p) \/ Directory!RemoveNode(p) \/ Directory!Save(p)
                    \/ Directory!List(p) \/ Directory!Read(p) \/ Directory!WriteNext(p)
                    \/ Directory!Crash(p)
             PROVE  Directory!DirInv'
  BY DEF Directory!Next
<1>1. ASSUME NEW k \in FileKey, NEW v \in FileValue, Directory!Set(p, k, v)
      PROVE  Directory!DirInv'
  BY <1>1, EnterStep DEF Directory!Set
<1>2. ASSUME NEW k \in FileKey, Directory!Delete(p, k)
      PROVE  Directory!DirInv'
  BY <1>2, EnterStep DEF Directory!Delete
<1>3. ASSUME Directory!Save(p) PROVE Directory!DirInv'
  BY <1>3, EnterStep DEF Directory!Save
<1> QED
  BY <1>1, <1>2, <1>3, MakeDirsStep, OpenStep, WriteStep, LookStep, RemoveStep, ListStep,
     ReadStep, WriteNextStep, CrashStep

(* A key of a directory that calls have not changed side by side, and that *)
(* no call was interrupted at, holds what the last call that returned has  *)
(* made of it, whatever processes do with other keys meanwhile; and files  *)
(* are in directories (set, delete and save of DirKvStore).                *)
THEOREM DirectoryCorrect == Spec => []KeysSettled
<1> DEFINE Inv == part = "dir" => Directory!DirInv
<1>1. ASSUME Init PROVE Inv
  BY <1>1, DirBegins DEF Init
<1>2. ASSUME Inv, [Next]_vars PROVE Inv'
  <2>1. CASE part = "dir" /\ Directory!Next /\ part' = part
    BY <1>2, <2>1, DirectoryStep
  <2>2. CASE part' = part /\ UNCHANGED <<tree, dirCall, meant, risk>>
    <3>1. Directory!TreeInv => Directory!TreeInv'
      BY <2>2, Zenon DEF Directory!TreeInv, Directory!IsDir
    <3>2. Directory!SettledInv => Directory!SettledInv'
      BY <2>2 DEF Directory!SettledInv, Directory!Settled, Directory!Shares, Directory!Writes,
         Directory!IsDir, Directory!Content
    <3>3. ASSUME NEW q \in Process, Directory!CallInv(dirCall[q])
          PROVE  Directory!CallInv(dirCall[q])'
      <4>1. PICK e : e = dirCall[q]
        OBVIOUS
      <4>2. Directory!CallInv(e)' /\ e = dirCall'[q]
        BY <2>2, <3>3, <4>1, CallStays
      <4> QED
        BY <4>2, CallAgain
    <3>4. \A q \in Process : Directory!Touched(q)' = Directory!Touched(q)
      BY <2>2 DEF Directory!Touched
    <3> QED
      BY <1>2, <2>2, <3>1, <3>2, <3>3, <3>4 DEF Directory!DirInv
  <2>3. CASE part # "dir" /\ part' = part
    BY <2>3
  <2> QED
    BY <1>2, <2>1, <2>2, <2>3 DEF Next, vars, dirVars
<1>3. ASSUME Inv PROVE KeysSettled
  <2> SUFFICES ASSUME Directory!DirInv PROVE Directory!KeysSettled
    BY <1>3 DEF KeysSettled
  <2>1. ASSUME NEW k \in FileKey \ risk, \A p \in Process : k \notin Directory!Touched(p)
        PROVE  Directory!Settled(k)
    <3>1. ASSUME NEW p \in Process
          PROVE  ~Directory!Shares(dirCall[p], k) /\ ~Directory!Writes(dirCall[p], k)
      <4>1. CASE dirCall[p] = Directory!Idle
        BY <4>1 DEF Directory!Shares, Directory!Writes
      <4>2. CASE dirCall[p] # Directory!Idle
        <5>1. PICK c : c = dirCall[p]
          OBVIOUS
        <5>2. Directory!CallType(c) /\ c.shared \subseteq c.touch
          BY <4>2, <5>1, InCall
        <5>3. c.step = "write" => c.key \in c.touch
          BY <5>2, Zenon DEF Directory!CallType
        <5>4. k \notin c.touch
          BY <2>1, <4>2, <5>1 DEF Directory!Touched
        <5> QED
          BY <5>1, <5>2, <5>3, <5>4 DEF Directory!Shares, Directory!Writes
      <4> QED
        BY <4>1, <4>2
    <3> QED
      BY <2>1, <3>1 DEF Directory!DirInv, Directory!SettledInv
  <2>2. ASSUME NEW n \in DOMAIN tree \ {Directory!Top}
        PROVE  Directory!IsDir(tree, Directory!Parent(n))
    <3>1. n \in Seq(Directory!Name) /\ \A m \in Directory!Above(n) : Directory!IsDir(tree, m)
      BY Zenon DEF Directory!DirInv, Directory!TreeInv
    <3> QED
      BY <3>1, ParentFacts
  <2> QED
    BY <2>1, <2>2 DEF Directory!KeysSettled, Directory!Settled
<1> QED
  BY <1>1, <1>2, <1>3, PTL DEF Spec

-----------------------------------------------------------------------------
(* The conf command.                                                       *)

\* Dicts are functions, and all of their keys and values are of those given.
LEMMA DictFacts ==
  ASSUME NEW d \in Cli!Dict
  PROVE  /\ d = [k \in DOMAIN d |-> d[k]] /\ DOMAIN d \subseteq ConfKeys
         /\ \A k \in DOMAIN d : d[k] \in ConfValues
         /\ d # Absent /\ d # Blank
<1>1. PICK keys \in SUBSET ConfKeys : d \in [keys -> ConfValues]
  BY DEF Cli!Dict
<1>2. d # Absent /\ d # Blank
  BY CliAssumption
<1> QED
  BY <1>1, <1>2

LEMMA DictMade ==
  ASSUME NEW keys \in SUBSET ConfKeys, NEW d \in [keys -> ConfValues]
  PROVE  d \in Cli!Dict
BY DEF Cli!Dict

LEMMA DictOver ==
  ASSUME NEW a \in Cli!Dict, NEW b \in Cli!Dict
  PROVE  Cli!Over(a, b) \in Cli!Dict
<1>1. /\ DOMAIN a \subseteq ConfKeys /\ \A k \in DOMAIN a : a[k] \in ConfValues
      /\ DOMAIN b \subseteq ConfKeys /\ \A k \in DOMAIN b : b[k] \in ConfValues
  BY DictFacts
<1>2. Cli!Over(a, b) \in [DOMAIN a \cup DOMAIN b -> ConfValues]
  BY <1>1 DEF Cli!Over
<1> QED
  BY <1>1, <1>2, DictMade

\* What a process reads of a file, and that loading a file that is not there leaves
\* what every process reads as it was.
LEMMA CliReads ==
  ASSUME Cli!TypeInv, NEW u \in DOMAIN ConfStart
  PROVE  Cli!Reads(u) \in Cli!Dict \cup {Blank}
<1>1. [k \in {} |-> None] \in [{} -> ConfValues]
  OBVIOUS
<1>2. [k \in {} |-> None] \in Cli!Dict
  BY <1>1, DictMade, Zenon
<1> QED
  BY <1>2 DEF Cli!TypeInv, Cli!Reads

LEMMA CliMade ==
  ASSUME Cli!TypeInv, NEW u \in DOMAIN ConfStart, Cli!Made(u)
  PROVE  /\ cliFile' \in [DOMAIN ConfStart -> Cli!Dict \cup {Absent, Blank}]
         /\ \A v \in DOMAIN ConfStart : Cli!Reads(v)' = Cli!Reads(v)
<1>1. PICK made : made = Cli!Reads(u)
  OBVIOUS
<1>2. made \in Cli!Dict \cup {Blank} /\ made # Absent
  BY <1>1, CliReads, DictFacts, CliAssumption
<1>3. cliFile' = [cliFile EXCEPT ![u] = made]
  BY <1>1 DEF Cli!Made
<1>4. cliFile \in [DOMAIN ConfStart -> Cli!Dict \cup {Absent, Blank}]
  BY DEF Cli!TypeInv
<1>5. ASSUME NEW v \in DOMAIN ConfStart PROVE Cli!Reads(v)' = Cli!Reads(v)
  <2>1. CASE v = u
    BY <1>1, <1>2, <1>3, <1>4, <2>1 DEF Cli!Reads
  <2>2. CASE v # u
    BY <1>3, <1>4, <2>2 DEF Cli!Reads
  <2> QED
    BY <2>1, <2>2
<1> QED
  BY <1>2, <1>3, <1>4, <1>5

-----------------------------------------------------------------------------
\* Process p is at me, and the others have not moved.
CliMoved(p, me) == cli' = [q \in Process |-> IF q = p THEN me ELSE cli[q]]

\* What a process has that has been given a command.
CliTyped(me) ==
  /\ me = [step |-> me.step, cmd |-> me.cmd, data |-> me.data, other |-> me.other,
           base |-> me.base, status |-> me.status, out |-> me.out]
  /\ me.step \in Cli!Working \cup {"ended", "killed"} /\ me.cmd \in ConfCalls
  /\ me.base \in Cli!Dict \cup {Blank}

\* A file that a command has named is known.
LEMMA CliUrl ==
  ASSUME NEW me, CliTyped(me)
  PROVE  /\ me.cmd.url \in DOMAIN ConfStart /\ me # Cli!Idle
         /\ me.cmd.op \in Cli!TwoFiles => me.cmd.second \in DOMAIN ConfStart
<1>1. me.cmd.url \in DOMAIN ConfStart
      /\ (me.cmd.op \in Cli!TwoFiles => me.cmd.second \in DOMAIN ConfStart)
  BY CliAssumption DEF CliTyped
<1>2. me.step # "idle"
  BY DEF CliTyped, Cli!Working
<1> QED
  BY <1>1, <1>2 DEF Cli!Idle

\* A step that leaves what everybody reads as it was keeps the invariant, if what p
\* has come to does.
LEMMA CliReader ==
  ASSUME Cli!CliInv, NEW p \in Process, NEW me, CliMoved(p, me), CliTyped(me), Cli!WorkInv(me),
         cliFile' \in [DOMAIN ConfStart -> Cli!Dict \cup {Absent, Blank}],
         \A u \in DOMAIN ConfStart : Cli!Reads(u)' = Cli!Reads(u),
         \A q \in Process \ {p} : q \notin shared' => q \notin shared,
         p \notin shared' => Cli!FileInv(me)
  PROVE  Cli!CliInv'
<1>1. ASSUME NEW w, CliTyped(w), Cli!FileInv(w) PROVE Cli!FileInv(w)'
  <2>1. Cli!Reads(w.cmd.url)' = Cli!Reads(w.cmd.url)
    BY <1>1, CliUrl
  <2> QED
    BY <1>1, <2>1, Zenon DEF Cli!FileInv
<1>2. ASSUME NEW q \in Process, NEW w, w = cli'[q], w # Cli!Idle
      PROVE  CliTyped(w) /\ Cli!WorkInv(w) /\ (q \notin shared' => Cli!FileInv(w)')
  <2>1. CASE q = p
    <3>1. w = me
      BY <1>2, <2>1 DEF CliMoved
    <3> QED
      BY <1>1, <2>1, <3>1
  <2>2. CASE q # p
    <3>1. w = cli[q]
      BY <1>2, <2>2 DEF CliMoved
    <3>2. CliTyped(w) /\ Cli!WorkInv(w) /\ (q \notin shared => Cli!FileInv(w))
      BY <1>2, <3>1 DEF Cli!CliInv, Cli!TypeInv, CliTyped
    <3> QED
      BY <1>1, <2>2, <3>2
  <2> QED
    BY <2>1, <2>2
<1>3. cli' = [q \in Process |-> cli'[q]]
  BY DEF CliMoved
<1>4. Cli!TypeInv'
  BY <1>2, <1>3 DEF Cli!TypeInv, CliTyped
<1> QED
  BY <1>2, <1>4 DEF Cli!CliInv

-----------------------------------------------------------------------------
\* Where a command comes to: what it was given and loaded stays with it.
CliAt(me, step, data, other, status, out) ==
  [step |-> step, cmd |-> me.cmd, data |-> data, other |-> other, base |-> me.base,
   status |-> status, out |-> out]

LEMMA CliMoves ==
  ASSUME Cli!TypeInv, NEW p \in Process, NEW me, me = cli[p], me # Cli!Idle
  PROVE  /\ CliTyped(me)
         /\ \A status, out : Cli!Ends(p, status, out) =>
              CliMoved(p, CliAt(me, "ended", me.data, me.other, status, out))
         /\ \A data : Cli!Saves(p, data) =>
              CliMoved(p, CliAt(me, "save", data, me.other, me.status, me.out))
<1>1. CliTyped(me) /\ cli = [q \in Process |-> cli[q]]
  BY DEF Cli!TypeInv, CliTyped
<1>2. me = [step |-> me.step, cmd |-> me.cmd, data |-> me.data, other |-> me.other,
            base |-> me.base, status |-> me.status, out |-> me.out]
  BY <1>1 DEF CliTyped
<1>3. ASSUME NEW status, NEW out, Cli!Ends(p, status, out)
      PROVE  CliMoved(p, CliAt(me, "ended", me.data, me.other, status, out))
  <2>1. PICK one : one = [me EXCEPT !.step = "ended"]
    BY Zenon
  <2>2. PICK two : two = [one EXCEPT !.status = status]
    BY Zenon
  <2>3. PICK three : three = [two EXCEPT !.out = out]
    BY Zenon
  <2>4. one = CliAt(me, "ended", me.data, me.other, me.status, me.out)
    BY <1>2, <2>1 DEF CliAt
  <2>5. two = CliAt(me, "ended", me.data, me.other, status, me.out)
    BY <2>2, <2>4 DEF CliAt
  <2>6. three = CliAt(me, "ended", me.data, me.other, status, out)
    BY <2>3, <2>5 DEF CliAt
  <2>7. cli' = [cli EXCEPT ![p] = three]
    <3>1. PICK a : a = [cli EXCEPT ![p] = one]
      BY Zenon
    <3>2. PICK b : b = [a EXCEPT ![p] = two]
      BY Zenon
    <3>3. PICK c : c = [b EXCEPT ![p] = three]
      BY Zenon
    <3>4. a = [cli EXCEPT ![p].step = "ended"] /\ a[p] = one /\ a = [q \in Process |-> a[q]]
      BY <1>1, <2>1, <3>1
    <3>5. b = [a EXCEPT ![p].status = status] /\ b[p] = two /\ b = [q \in Process |-> b[q]]
      BY <2>2, <3>2, <3>4, Zenon
    <3>6. c = [b EXCEPT ![p].out = out]
      BY <2>3, <3>3, <3>5, Zenon
    <3>7. cli' = [[[cli EXCEPT ![p].step = "ended"] EXCEPT ![p].status = status]
                   EXCEPT ![p].out = out]
      BY <1>3, Zenon DEF Cli!Ends
    <3>8. cli' = c
      BY <3>4, <3>5, <3>6, <3>7, Zenon
    <3> QED
      BY <1>1, <3>1, <3>2, <3>3, <3>8, Zenon
  <2> QED
    BY <1>1, <2>6, <2>7 DEF CliMoved
<1>4. ASSUME NEW data, Cli!Saves(p, data)
      PROVE  CliMoved(p, CliAt(me, "save", data, me.other, me.status, me.out))
  <2>1. PICK one : one = [me EXCEPT !.step = "save"]
    BY Zenon
  <2>2. PICK two : two = [one EXCEPT !.data = data]
    BY Zenon
  <2>3. one = CliAt(me, "save", me.data, me.other, me.status, me.out)
    BY <1>2, <2>1 DEF CliAt
  <2>4. two = CliAt(me, "save", data, me.other, me.status, me.out)
    BY <2>2, <2>3 DEF CliAt
  <2>5. cli' = [cli EXCEPT ![p] = two]
    <3>1. PICK a : a = [cli EXCEPT ![p] = one]
      BY Zenon
    <3>2. PICK b : b = [a EXCEPT ![p] = two]
      BY Zenon
    <3>3. a = [cli EXCEPT ![p].step = "save"] /\ a[p] = one /\ a = [q \in Process |-> a[q]]
      BY <1>1, <2>1, <3>1
    <3>4. b = [a EXCEPT ![p].data = data]
      BY <2>2, <3>2, <3>3, Zenon
    <3>5. cli' = [[cli EXCEPT ![p].step = "save"] EXCEPT ![p].data = data]
      BY <1>4, Zenon DEF Cli!Saves
    <3>6. cli' = b
      BY <3>3, <3>4, <3>5, Zenon
    <3> QED
      BY <1>1, <3>1, <3>2, <3>6, Zenon
  <2> QED
    BY <1>1, <2>4, <2>5 DEF CliMoved
<1> QED
  BY <1>1, <1>3, <1>4

\* A command that ends on what it loaded has changed nothing, and one that is to save
\* has made what is meant of it.
LEMMA CliEnded ==
  ASSUME Cli!CliInv, NEW p \in Process, NEW me, me = cli[p], me # Cli!Idle,
         me.step \in {"second", "run"}, NEW other, NEW status, NEW out,
         CliMoved(p, CliAt(me, "ended", me.data, other, status, out)), shared' = shared,
         cliFile' \in [DOMAIN ConfStart -> Cli!Dict \cup {Absent, Blank}],
         \A u \in DOMAIN ConfStart : Cli!Reads(u)' = Cli!Reads(u),
         status = 0 =>
           /\ Cli!Meant(me.cmd, me.base, other) = me.base
           /\ me.cmd.op = "compare" =>
                DOMAIN other = (DOMAIN me.base \cup out.new) \ out.deleted
  PROVE  Cli!CliInv'
<1>1. CliTyped(me) /\ Cli!WorkInv(me) /\ (p \notin shared => Cli!FileInv(me))
  BY CliMoves DEF Cli!CliInv
<1>2. PICK now : now = CliAt(me, "ended", me.data, other, status, out)
  OBVIOUS
<1>3. /\ now.step = "ended" /\ now.cmd = me.cmd /\ now.data = me.data /\ now.other = other
      /\ now.base = me.base /\ now.status = status /\ now.out = out
  BY <1>2 DEF CliAt
<1>4. now = [step |-> now.step, cmd |-> now.cmd, data |-> now.data, other |-> now.other,
             base |-> now.base, status |-> now.status, out |-> now.out]
  BY <1>2 DEF CliAt
<1>5. CliTyped(now)
  BY <1>1, <1>3, <1>4 DEF CliTyped
<1>6. Cli!WorkInv(now)
  BY <1>3 DEF Cli!WorkInv, Cli!Working
<1>7. ASSUME p \notin shared PROVE Cli!FileInv(now)
  <2>1. Cli!Reads(me.cmd.url) = me.base
    BY <1>1, <1>7 DEF Cli!FileInv
  <2> QED
    BY <1>3, <2>1 DEF Cli!FileInv
<1> QED
  BY <1>2, <1>5, <1>6, <1>7, CliReader

LEMMA CliSaved ==
  ASSUME Cli!CliInv, NEW p \in Process, NEW me, me = cli[p], me # Cli!Idle,
         me.step = "run", me.cmd.op # "compare",
         NEW data \in Cli!Dict, Cli!Saves(p, data),
         UNCHANGED <<cliFile, shared>>, data = Cli!Meant(me.cmd, me.base, me.other)
  PROVE  Cli!CliInv'
<1>1. CliTyped(me) /\ Cli!WorkInv(me) /\ (p \notin shared => Cli!FileInv(me))
  BY CliMoves DEF Cli!CliInv
<1>2. PICK now : now = CliAt(me, "save", data, me.other, me.status, me.out)
  OBVIOUS
<1>3. /\ now.step = "save" /\ now.cmd = me.cmd /\ now.data = data /\ now.other = me.other
      /\ now.base = me.base
  BY <1>2 DEF CliAt
<1>4. now = [step |-> now.step, cmd |-> now.cmd, data |-> now.data, other |-> now.other,
             base |-> now.base, status |-> now.status, out |-> now.out]
  BY <1>2 DEF CliAt
<1>5. CliTyped(now)
  BY <1>1, <1>3, <1>4 DEF CliTyped, Cli!Working
<1>6. Cli!WorkInv(now)
  BY <1>1, <1>3 DEF Cli!WorkInv, Cli!Working
<1>7. ASSUME p \notin shared PROVE Cli!FileInv(now)
  <2>1. Cli!Reads(me.cmd.url) = me.base
    BY <1>1, <1>7 DEF Cli!FileInv
  <2> QED
    BY <1>3, <2>1 DEF Cli!FileInv
<1>8. cliFile' \in [DOMAIN ConfStart -> Cli!Dict \cup {Absent, Blank}]
  BY DEF Cli!CliInv, Cli!TypeInv
<1>9. \A u \in DOMAIN ConfStart : Cli!Reads(u)' = Cli!Reads(u)
  BY DEF Cli!Reads
<1>10. CliMoved(p, now)
  BY <1>2, CliMoves DEF Cli!CliInv
<1> QED
  BY <1>5, <1>6, <1>7, <1>8, <1>9, <1>10, CliReader

-----------------------------------------------------------------------------
\* What a command works on, and how it ends there.
LEMMA CliRun ==
  ASSUME Cli!CliInv, NEW p \in Process, NEW me, me = cli[p], me.step = "run"
  PROVE  /\ me # Cli!Idle /\ me.data = me.base /\ me.data \in Cli!Dict /\ me.cmd \in ConfCalls
         /\ me.cmd.op \in Cli!TwoFiles => me.other \in Cli!Dict
<1>1. me # Cli!Idle
  BY DEF Cli!Idle
<1>2. CliTyped(me) /\ Cli!WorkInv(me)
  BY <1>1, CliMoves DEF Cli!CliInv
<1> QED
  BY <1>1, <1>2 DEF CliTyped, Cli!WorkInv, Cli!Working

LEMMA CliEnds ==
  ASSUME Cli!CliInv, NEW p \in Process, NEW me, me = cli[p], me.step = "run",
         NEW status, NEW out, Cli!Ends(p, status, out), UNCHANGED <<cliFile, shared>>,
         status = 0 =>
           /\ Cli!Meant(me.cmd, me.base, me.other) = me.base
           /\ me.cmd.op = "compare" =>
                DOMAIN me.other = (DOMAIN me.base \cup out.new) \ out.deleted
  PROVE  Cli!CliInv'
<1>1. me # Cli!Idle /\ Cli!TypeInv
  BY CliRun DEF Cli!CliInv
<1>2. PICK other : other = me.other
  OBVIOUS
<1>3. CliMoved(p, CliAt(me, "ended", me.data, other, status, out))
  BY <1>1, <1>2, CliMoves
<1>4. cliFile' \in [DOMAIN ConfStart -> Cli!Dict \cup {Absent, Blank}]
  BY <1>1 DEF Cli!TypeInv
<1>5. \A u \in DOMAIN ConfStart : Cli!Reads(u)' = Cli!Reads(u)
  BY DEF Cli!Reads
<1> QED
  BY <1>1, <1>2, <1>3, <1>4, <1>5, CliEnded, Zenon

\* The commands that look only.
LEMMA CliLooks ==
  ASSUME Cli!CliInv, NEW p \in Process,
         Cli!Compare(p) \/ Cli!Get(p) \/ Cli!Diff(p) \/ Cli!GetKeys(p) \/ Cli!Search(p)
  PROVE  Cli!CliInv'
<1>1. PICK me : me = cli[p]
  OBVIOUS
<1>2. me.cmd.op \notin {"set", "delete", "merge", "addnumkeys"} =>
        Cli!Meant(me.cmd, me.base, me.other) = me.base
  BY DEF Cli!Meant
<1>3. CASE Cli!Compare(p)
  <2>1. PICK deleted : deleted = DOMAIN me.data \ DOMAIN me.other
    BY Zenon
  <2>2. PICK out : out = [new |-> DOMAIN me.other \ DOMAIN me.data, deleted |-> deleted,
                          updated |-> {k \in DOMAIN me.data \ deleted :
                                         me.data[k] # me.other[k]}]
    BY Zenon
  <2>3. me.step = "run" /\ me.cmd.op = "compare" /\ Cli!Ends(p, 0, out)
        /\ UNCHANGED <<cliFile, shared>>
    BY <1>1, <1>3, <2>1, <2>2 DEF Cli!Compare, Cli!Runs
  <2>4. me.data = me.base
    BY <1>1, <2>3, CliRun
  <2>5. out.new = DOMAIN me.other \ DOMAIN me.base
        /\ out.deleted = DOMAIN me.base \ DOMAIN me.other
    BY <2>1, <2>2, <2>4
  <2>6. DOMAIN me.other = (DOMAIN me.base \cup out.new) \ out.deleted
    BY <2>5
  <2> QED
    BY <1>1, <1>2, <2>3, <2>6, CliEnds
<1>4. ASSUME NEW status, NEW out, Cli!Ends(p, status, out), me.step = "run",
             me.cmd.op \notin {"set", "delete", "merge", "addnumkeys", "compare"},
             UNCHANGED <<cliFile, shared>>
      PROVE  Cli!CliInv'
  BY <1>1, <1>2, <1>4, CliEnds
<1>5. CASE Cli!Get(p)
  <2>1. PICK out : Cli!Ends(p, Cli!EINVAL, None) \/ Cli!Ends(p, 0, out)
    BY <1>5 DEF Cli!Get
  <2> QED
    BY <1>1, <1>4, <1>5, <2>1 DEF Cli!Get, Cli!Runs
<1>6. CASE Cli!Diff(p)
  <2>1. PICK out : Cli!Ends(p, 0, out)
    BY <1>6, Zenon DEF Cli!Diff
  <2> QED
    BY <1>1, <1>4, <1>6, <2>1 DEF Cli!Diff, Cli!Runs
<1>7. CASE Cli!GetKeys(p)
  BY <1>1, <1>4, <1>7 DEF Cli!GetKeys, Cli!Runs
<1>8. CASE Cli!Search(p)
  <2>1. PICK out : Cli!Ends(p, 0, out)
    BY <1>8 DEF Cli!Search
  <2> QED
    BY <1>1, <1>4, <1>8, <2>1 DEF Cli!Search, Cli!Runs
<1> QED
  BY <1>3, <1>5, <1>6, <1>7, <1>8

LEMMA CliCopy ==
  ASSUME Cli!CliInv, NEW p \in Process, Cli!Copy(p)
  PROVE  Cli!CliInv'
<1>1. PICK me : me = cli[p]
  OBVIOUS
<1>2. me.step = "run" /\ me.cmd.op = "copy" /\ UNCHANGED <<cliFile, shared>>
  BY <1>1 DEF Cli!Copy, Cli!Runs
<1>3. me # Cli!Idle /\ CliTyped(me) /\ Cli!TypeInv
  BY <1>1, <1>2, CliRun, CliMoves DEF Cli!CliInv
<1>4. me = [step |-> me.step, cmd |-> me.cmd, data |-> me.data, other |-> me.other,
            base |-> me.base, status |-> me.status, out |-> me.out]
      /\ cli = [q \in Process |-> cli[q]]
  BY <1>3 DEF CliTyped, Cli!TypeInv
<1>5. PICK other : cli' = [cli EXCEPT ![p].step = "ended", ![p].status = 0, ![p].other = other]
  BY Zenon DEF Cli!Copy
<1>6. PICK one : one = [me EXCEPT !.step = "ended"]
  BY Zenon
<1>7. PICK two : two = [one EXCEPT !.status = 0]
  BY Zenon
<1>8. PICK three : three = [two EXCEPT !.other = other]
  BY Zenon
<1>9. one = CliAt(me, "ended", me.data, me.other, me.status, me.out)
  BY <1>4, <1>6 DEF CliAt
<1>10. two = CliAt(me, "ended", me.data, me.other, 0, me.out)
  BY <1>7, <1>9 DEF CliAt
<1>11. three = CliAt(me, "ended", me.data, other, 0, me.out)
  BY <1>8, <1>10 DEF CliAt
<1>12. cli' = [cli EXCEPT ![p] = three]
  <2>1. PICK a : a = [cli EXCEPT ![p] = one]
    BY Zenon
  <2>2. PICK b : b = [a EXCEPT ![p] = two]
    BY Zenon
  <2>3. PICK c : c = [b EXCEPT ![p] = three]
    BY Zenon
  <2>4. a = [cli EXCEPT ![p].step = "ended"] /\ a[p] = one /\ a = [q \in Process |-> a[q]]
    BY <1>1, <1>4, <1>6, <2>1
  <2>5. b = [a EXCEPT ![p].status = 0] /\ b[p] = two /\ b = [q \in Process |-> b[q]]
    BY <1>7, <2>2, <2>4, Zenon
  <2>6. c = [b EXCEPT ![p].other = other]
    BY <1>8, <2>3, <2>5, Zenon
  <2>7. cli' = [[[cli EXCEPT ![p].step = "ended"] EXCEPT ![p].status = 0]
                 EXCEPT ![p].other = other]
    BY <1>5, Zenon
  <2>8. cli' = c
    BY <2>4, <2>5, <2>6, <2>7, Zenon
  <2> QED
    BY <1>4, <2>1, <2>2, <2>3, <2>8, Zenon
<1>13. CliMoved(p, CliAt(me, "ended", me.data, other, 0, me.out))
  BY <1>4, <1>11, <1>12 DEF CliMoved
<1>14. Cli!Meant(me.cmd, me.base, other) = me.base
  BY <1>2 DEF Cli!Meant
<1>15. cliFile' \in [DOMAIN ConfStart -> Cli!Dict \cup {Absent, Blank}]
  BY <1>2, <1>3 DEF Cli!TypeInv
<1>16. \A u \in DOMAIN ConfStart : Cli!Reads(u)' = Cli!Reads(u)
  BY <1>2 DEF Cli!Reads
<1> QED
  BY <1>1, <1>2, <1>3, <1>13, <1>14, <1>15, <1>16, CliEnded, Zenon

\* The commands that change the file make what is meant of what they loaded.
LEMMA CliSet ==
  ASSUME Cli!CliInv, NEW p \in Process, Cli!Set(p)
  PROVE  Cli!CliInv'
<1>1. PICK me : me = cli[p]
  OBVIOUS
<1>2. PICK pairs : pairs = me.cmd.args
  OBVIOUS
<1>3. me.step = "run" /\ me.cmd.op = "set" /\ UNCHANGED <<cliFile, shared>>
  BY <1>1 DEF Cli!Set, Cli!Runs
<1>4. me # Cli!Idle /\ me.data = me.base /\ me.data \in Cli!Dict /\ me.cmd \in ConfCalls
  BY <1>1, <1>3, CliRun
<1>5. CASE Cli!Ends(p, Cli!EINVAL, None)
  BY <1>1, <1>3, <1>5, CliEnds DEF Cli!EINVAL
<1>6. CASE /\ \A i \in DOMAIN pairs : Len(pairs[i]) # 1
           /\ Cli!Saves(p, Cli!Over(Cli!Given(pairs), me.data))
  <2>1. Cli!Given(pairs) \in Cli!Dict
    BY <1>2, <1>3, <1>4, <1>6, CliAssumption
  <2>2. Cli!Over(Cli!Given(pairs), me.data) \in Cli!Dict
    BY <1>4, <2>1, DictOver
  <2>3. PICK keys : keys = {pairs[i][1] : i \in DOMAIN pairs}
    BY Zenon
  <2>4. PICK final : final = [k \in keys |-> Cli!LastOf(pairs, k)]
    BY Zenon
  <2>5. {pair[1] : pair \in Cli!Range(pairs)} = keys
    BY <2>3 DEF Cli!Range
  <2>6. Cli!Given(pairs) = [k \in keys |-> pairs[final[k]][2]]
    BY <2>4, <2>5 DEF Cli!Given
  <2>7. Cli!Over(Cli!Given(pairs), me.data)
          = [k \in keys \cup DOMAIN me.data |->
               IF k \in keys THEN pairs[final[k]][2] ELSE me.data[k]]
    BY <2>6 DEF Cli!Over
  <2>8. Cli!Meant(me.cmd, me.base, me.other)
          = [k \in DOMAIN me.base \cup keys |->
               IF k \in keys
               THEN pairs[CHOOSE i \in DOMAIN pairs :
                            /\ pairs[i][1] = k
                            /\ \A j \in DOMAIN pairs : pairs[j][1] = k => j <= i][2]
               ELSE me.base[k]]
    BY <1>2, <1>3, <2>3 DEF Cli!Meant
  <2>9. \A k \in keys : final[k] = CHOOSE i \in DOMAIN pairs :
                            /\ pairs[i][1] = k
                            /\ \A j \in DOMAIN pairs : pairs[j][1] = k => j <= i
    BY <2>4 DEF Cli!LastOf
  <2>10. Cli!Meant(me.cmd, me.base, me.other)
           = [k \in DOMAIN me.base \cup keys |->
                IF k \in keys THEN pairs[final[k]][2] ELSE me.base[k]]
    BY <2>8, <2>9, Zenon
  <2>11. Cli!Over(Cli!Given(pairs), me.data) = Cli!Meant(me.cmd, me.base, me.other)
    BY <1>4, <2>7, <2>10
  <2> QED
    BY <1>1, <1>3, <1>4, <1>6, <2>2, <2>11, CliSaved
<1> QED
  BY <1>1, <1>2, <1>5, <1>6 DEF Cli!Set

LEMMA CliNum ==
  ASSUME Cli!CliInv, NEW p \in Process, Cli!AddNumKeys(p)
  PROVE  Cli!CliInv'
<1>1. PICK me : me = cli[p]
  OBVIOUS
<1>2. me.step = "run" /\ me.cmd.op = "addnumkeys" /\ UNCHANGED <<cliFile, shared>>
  BY <1>1 DEF Cli!AddNumKeys, Cli!Runs
<1>3. me # Cli!Idle /\ me.data = me.base /\ me.data \in Cli!Dict
  BY <1>1, <1>2, CliRun
<1>4. PICK keys : keys = {NumOf[k] : k \in DOMAIN NumOf \cap DOMAIN me.data}
  BY Zenon
<1>5. PICK nums : nums = [n \in keys |-> "num"]
  BY Zenon
<1>6. Cli!Saves(p, Cli!Over(nums, me.data))
  BY <1>1, <1>4, <1>5 DEF Cli!AddNumKeys
<1>7. keys \in SUBSET ConfKeys /\ nums \in [keys -> ConfValues]
  BY <1>4, <1>5, CliAssumption
<1>8. Cli!Over(nums, me.data) \in Cli!Dict
  BY <1>3, <1>7, DictMade, DictOver
<1>9. Cli!Over(nums, me.data) = [k \in keys \cup DOMAIN me.data |->
                                   IF k \in keys THEN "num" ELSE me.data[k]]
  BY <1>5 DEF Cli!Over
<1>10. \A k : (\E j \in DOMAIN NumOf \cap DOMAIN me.data : NumOf[j] = k) <=> k \in keys
  BY <1>4
<1>11. Cli!Meant(me.cmd, me.base, me.other)
         = [k \in DOMAIN me.data \cup keys |->
              IF \E j \in DOMAIN NumOf \cap DOMAIN me.data : NumOf[j] = k
              THEN "num" ELSE me.data[k]]
  BY <1>2, <1>3, <1>4 DEF Cli!Meant
<1>12. Cli!Over(nums, me.data) = Cli!Meant(me.cmd, me.base, me.other)
  BY <1>9, <1>10, <1>11
<1> QED
  BY <1>1, <1>2, <1>3, <1>6, <1>8, <1>12, CliSaved

LEMMA CliDelete ==
  ASSUME Cli!CliInv, NEW p \in Process, Cli!Delete(p)
  PROVE  Cli!CliInv'
<1>1. PICK me : me = cli[p]
  OBVIOUS
<1>2. PICK keys : keys = me.cmd.args
  OBVIOUS
<1>3. me.step = "run" /\ me.cmd.op = "delete" /\ UNCHANGED <<cliFile, shared>>
  BY <1>1 DEF Cli!Delete, Cli!Runs
<1>4. me # Cli!Idle /\ me.data = me.base /\ me.data \in Cli!Dict
  BY <1>1, <1>3, CliRun
<1>5. /\ me.data = [k \in DOMAIN me.data |-> me.data[k]] /\ DOMAIN me.data \subseteq ConfKeys
      /\ \A k \in DOMAIN me.data : me.data[k] \in ConfValues
  BY <1>4, DictFacts
<1>6. PICK left : left = [j \in DOMAIN me.data \ Cli!Range(keys) |-> me.data[j]]
  BY Zenon
<1>7. CASE Cli!Ends(p, Cli!EINVAL, None)
  BY <1>1, <1>3, <1>7, CliEnds DEF Cli!EINVAL
<1>8. ASSUME ~(/\ ~me.cmd.force
               /\ \E i \in DOMAIN keys : keys[i] \in DOMAIN me.data /\ me.data[keys[i]] = Tree)
      PROVE  Cli!Meant(me.cmd, me.base, me.other) = left
  <2>1. PICK stay : stay = {k \in DOMAIN me.data : \/ \A i \in DOMAIN keys : keys[i] # k
                                                   \/ me.data[k] = Tree /\ ~me.cmd.force}
    BY Zenon
  <2>2. stay = DOMAIN me.data \ Cli!Range(keys)
    BY <1>8, <2>1 DEF Cli!Range
  <2>3. Cli!Meant(me.cmd, me.base, me.other) = [k \in stay |-> me.data[k]]
    BY <1>2, <1>3, <1>4, <2>1 DEF Cli!Meant
  <2> QED
    BY <1>6, <2>2, <2>3
<1>9. CASE /\ ~(/\ ~me.cmd.force
                /\ \E i \in DOMAIN keys : keys[i] \in DOMAIN me.data /\ me.data[keys[i]] = Tree)
           /\ ~ \E i \in DOMAIN keys : keys[i] \in DOMAIN me.data
           /\ Cli!Ends(p, 0, None)
  <2>1. DOMAIN me.data \ Cli!Range(keys) = DOMAIN me.data
    BY <1>9 DEF Cli!Range
  <2>2. left = me.base
    BY <1>4, <1>5, <1>6, <2>1
  <2> QED
    BY <1>1, <1>3, <1>8, <1>9, <2>2, CliEnds
<1>10. CASE /\ ~(/\ ~me.cmd.force
                 /\ \E i \in DOMAIN keys : keys[i] \in DOMAIN me.data /\ me.data[keys[i]] = Tree)
            /\ Cli!Saves(p, left)
  <2>1. left \in Cli!Dict
    <3>1. PICK rest : rest = DOMAIN me.data \ Cli!Range(keys)
      BY Zenon
    <3>2. left \in [rest -> ConfValues] /\ rest \in SUBSET ConfKeys
      BY <1>5, <1>6, <3>1
    <3> QED
      BY <3>2, DictMade
  <2> QED
    BY <1>1, <1>3, <1>4, <1>8, <1>10, <2>1, CliSaved
<1> QED
  BY <1>1, <1>2, <1>6, <1>7, <1>9, <1>10 DEF Cli!Delete

LEMMA CliMerge ==
  ASSUME Cli!CliInv, NEW p \in Process, Cli!Merge(p)
  PROVE  Cli!CliInv'
<1>1. PICK me : me = cli[p]
  OBVIOUS
<1>2. PICK keys : keys = Cli!MergeKeys(me.cmd, me.other)
  OBVIOUS
<1>3. me.step = "run" /\ me.cmd.op = "merge" /\ UNCHANGED <<cliFile, shared>>
  BY <1>1 DEF Cli!Merge, Cli!Runs
<1>4. me # Cli!Idle /\ me.data = me.base /\ me.data \in Cli!Dict /\ me.other \in Cli!Dict
  BY <1>1, <1>3, CliRun DEF Cli!TwoFiles
<1>5. me.data = [k \in DOMAIN me.data |-> me.data[k]]
  BY <1>4, DictFacts
<1>6. Cli!Meant(me.cmd, me.base, me.other)
        = [k \in DOMAIN me.base \cup keys |->
             IF k \in DOMAIN me.base THEN me.base[k] ELSE me.other[k]]
  BY <1>2, <1>3 DEF Cli!Meant
<1>7. CASE Cli!Ends(p, Cli!EINVAL, None)
  BY <1>1, <1>3, <1>7, CliEnds DEF Cli!EINVAL
<1>8. CASE keys \subseteq DOMAIN me.data /\ Cli!Ends(p, 0, None)
  <2>1. DOMAIN me.base \cup keys = DOMAIN me.base
    BY <1>4, <1>8
  <2>2. Cli!Meant(me.cmd, me.base, me.other) = me.base
    BY <1>4, <1>5, <1>6, <2>1
  <2> QED
    BY <1>1, <1>3, <1>8, <2>2, CliEnds
<1>9. CASE /\ keys \subseteq DOMAIN me.other
           /\ Cli!Saves(p, Cli!Over(me.data, [k \in keys |-> me.other[k]]))
  <2>1. PICK added : added = [k \in keys |-> me.other[k]]
    BY Zenon
  <2>2. DOMAIN me.other \subseteq ConfKeys /\ \A k \in DOMAIN me.other : me.other[k] \in ConfValues
    BY <1>4, DictFacts
  <2>3. added \in [keys -> ConfValues] /\ keys \in SUBSET ConfKeys
    BY <1>9, <2>1, <2>2
  <2>4. Cli!Over(me.data, added) \in Cli!Dict
    BY <1>4, <2>3, DictMade, DictOver
  <2>5. Cli!Over(me.data, added) = Cli!Meant(me.cmd, me.base, me.other)
    BY <1>4, <1>6, <2>1 DEF Cli!Over
  <2> QED
    BY <1>1, <1>3, <1>4, <1>9, <2>1, <2>4, <2>5, CliSaved
<1> QED
  BY <1>1, <1>2, <1>7, <1>8, <1>9 DEF Cli!Merge

-----------------------------------------------------------------------------
\* Loading.
LEMMA CliLoads ==
  ASSUME Cli!CliInv, NEW p \in Process, NEW c \in ConfCalls, Cli!Refuse(p, c) \/ Cli!Load(p, c)
  PROVE  Cli!CliInv'
<1>1. Cli!TypeInv /\ c.url \in DOMAIN ConfStart
  BY CliAssumption DEF Cli!CliInv
<1>2. PICK base : base = Cli!Reads(c.url)
  OBVIOUS
<1>3. base \in Cli!Dict \cup {Blank}
  BY <1>1, <1>2, CliReads
<1>4. cli = [q \in Process |-> cli[q]]
      /\ cliFile \in [DOMAIN ConfStart -> Cli!Dict \cup {Absent, Blank}]
  BY <1>1 DEF Cli!TypeInv
<1>5. /\ cliFile' \in [DOMAIN ConfStart -> Cli!Dict \cup {Absent, Blank}]
      /\ \A u \in DOMAIN ConfStart : Cli!Reads(u)' = Cli!Reads(u)
  <2>1. CASE Cli!Refuse(p, c)
    <3>1. cliFile' = cliFile
      BY <2>1 DEF Cli!Refuse
    <3> QED
      BY <1>4, <3>1 DEF Cli!Reads
  <2>2. CASE Cli!Load(p, c)
    <3>1. Cli!Made(c.url)
      BY <2>2 DEF Cli!Load
    <3> QED
      BY <1>1, <3>1, CliMade
  <2> QED
    BY <2>1, <2>2
<1>6. \A q \in Process \ {p} : q \notin shared' => q \notin shared
  BY DEF Cli!Refuse, Cli!Load
<1>7. ASSUME NEW step, NEW data, NEW status, status # 0,
             cli' = [cli EXCEPT ![p] =
                       [step |-> step, cmd |-> c, data |-> data, other |-> None, base |-> base,
                        status |-> status, out |-> None]],
             \/ step = "ended"
             \/ step = "second" /\ base # Blank /\ data = base /\ c.op \in Cli!TwoFiles
             \/ step = "run" /\ base # Blank /\ data = base /\ c.op \notin Cli!TwoFiles
      PROVE  Cli!CliInv'
  <2>1. PICK me : me = [step |-> step, cmd |-> c, data |-> data, other |-> None,
                        base |-> base, status |-> status, out |-> None]
    BY Zenon
  <2>2. /\ me = [step |-> me.step, cmd |-> me.cmd, data |-> me.data, other |-> me.other,
                 base |-> me.base, status |-> me.status, out |-> me.out]
        /\ me.step = step /\ me.cmd = c /\ me.data = data /\ me.base = base
        /\ me.status = status
    BY <2>1
  <2>3. CliMoved(p, me)
    BY <1>4, <1>7, <2>1 DEF CliMoved
  <2>4. CliTyped(me)
    BY <1>3, <1>7, <2>2 DEF CliTyped, Cli!Working
  <2>5. Cli!WorkInv(me)
    BY <1>3, <1>7, <2>2 DEF Cli!WorkInv, Cli!Working
  <2>6. Cli!FileInv(me)
    BY <1>2, <1>7, <2>2 DEF Cli!FileInv
  <2> QED
    BY <1>5, <1>6, <2>3, <2>4, <2>5, <2>6, CliReader
<1>8. CASE Cli!Refuse(p, c)
  <2>1. cli' = [cli EXCEPT ![p] =
                  [step |-> "ended", cmd |-> c, data |-> None, other |-> None, base |-> base,
                   status |-> 2, out |-> None]]
    BY <1>2, <1>8 DEF Cli!Refuse
  <2>2. PICK step, data, status : step = "ended" /\ data = None /\ status = 2
    OBVIOUS
  <2>3. cli' = [cli EXCEPT ![p] =
                  [step |-> step, cmd |-> c, data |-> data, other |-> None, base |-> base,
                   status |-> status, out |-> None]]
    BY <2>1, <2>2
  <2>4. status # 0
    BY <2>2
  <2> QED
    BY <1>7, <2>2, <2>3, <2>4, Zenon
<1>9. CASE Cli!Load(p, c)
  <2>1. PICK step, status : /\ step = IF base = Blank THEN "ended"
                                     ELSE IF c.op \in Cli!TwoFiles THEN "second" ELSE "run"
                            /\ status = Cli!EINVAL
    OBVIOUS
  <2>2. cli' = [cli EXCEPT ![p] =
                  [step |-> step, cmd |-> c, data |-> base, other |-> None, base |-> base,
                   status |-> status, out |-> None]]
    BY <1>2, <1>9, <2>1 DEF Cli!Load
  <2>3. status # 0
    BY <2>1 DEF Cli!EINVAL
  <2>4. \/ step = "ended"
        \/ step = "second" /\ base # Blank /\ base = base /\ c.op \in Cli!TwoFiles
        \/ step = "run" /\ base # Blank /\ base = base /\ c.op \notin Cli!TwoFiles
    BY <2>1
  <2> QED
    BY <1>7, <2>2, <2>3, <2>4, Zenon
<1> QED
  BY <1>8, <1>9

LEMMA CliLoadsSecond ==
  ASSUME Cli!CliInv, NEW p \in Process, Cli!LoadSecond(p)
  PROVE  Cli!CliInv'
<1>1. PICK me : me = cli[p]
  OBVIOUS
<1>2. me.step = "second" /\ me # Cli!Idle /\ shared' = shared
  BY <1>1 DEF Cli!LoadSecond, Cli!Idle
<1>3. CliTyped(me) /\ Cli!WorkInv(me) /\ (p \notin shared => Cli!FileInv(me)) /\ Cli!TypeInv
  BY <1>1, <1>2, CliMoves DEF Cli!CliInv
<1>4. /\ me = [step |-> me.step, cmd |-> me.cmd, data |-> me.data, other |-> me.other,
               base |-> me.base, status |-> me.status, out |-> me.out]
      /\ cli = [q \in Process |-> cli[q]]
  BY <1>3 DEF CliTyped, Cli!TypeInv
<1>5. PICK source : source = Cli!Reads(me.cmd.second)
  OBVIOUS
<1>6. Cli!Made(me.cmd.second)
  BY <1>1 DEF Cli!LoadSecond
<1>7. me.cmd.second \in DOMAIN ConfStart
  BY <1>2, <1>3, CliUrl DEF Cli!WorkInv
<1>8. source \in Cli!Dict \cup {Blank}
  BY <1>3, <1>5, <1>7, CliReads
<1>9. /\ cliFile' \in [DOMAIN ConfStart -> Cli!Dict \cup {Absent, Blank}]
      /\ \A u \in DOMAIN ConfStart : Cli!Reads(u)' = Cli!Reads(u)
  BY <1>3, <1>6, <1>7, CliMade
<1>10. CASE source = Blank
  <2>1. Cli!Ends(p, Cli!EINVAL, None)
    BY <1>1, <1>5, <1>10 DEF Cli!LoadSecond
  <2>2. PICK other, status : other = me.other /\ status = Cli!EINVAL
    OBVIOUS
  <2>3. status # 0
    BY <2>2 DEF Cli!EINVAL
  <2>4. CliMoved(p, CliAt(me, "ended", me.data, other, status, None))
    BY <1>1, <1>2, <1>3, <2>1, <2>2, CliMoves
  <2> QED
    BY <1>1, <1>2, <1>9, <2>3, <2>4, CliEnded, Zenon
<1>11. CASE source # Blank
  <2>1. cli' = [cli EXCEPT ![p].step = "run", ![p].other = source]
    BY <1>1, <1>5, <1>11 DEF Cli!LoadSecond
  <2>2. PICK one : one = [me EXCEPT !.step = "run"]
    BY Zenon
  <2>3. PICK now : now = [one EXCEPT !.other = source]
    BY Zenon
  <2>4. one = CliAt(me, "run", me.data, me.other, me.status, me.out)
    BY <1>4, <2>2 DEF CliAt
  <2>5. now = CliAt(me, "run", me.data, source, me.status, me.out)
    BY <2>3, <2>4 DEF CliAt
  <2>6. cli' = [cli EXCEPT ![p] = now]
    <3>1. PICK a : a = [cli EXCEPT ![p] = one]
      BY Zenon
    <3>2. PICK b : b = [a EXCEPT ![p] = now]
      BY Zenon
    <3>3. a = [cli EXCEPT ![p].step = "run"] /\ a[p] = one /\ a = [q \in Process |-> a[q]]
      BY <1>1, <1>4, <2>2, <3>1
    <3>4. b = [a EXCEPT ![p].other = source]
      BY <2>3, <3>2, <3>3, Zenon
    <3>5. cli' = [[cli EXCEPT ![p].step = "run"] EXCEPT ![p].other = source]
      BY <2>1, Zenon
    <3>6. cli' = b
      BY <3>3, <3>4, <3>5, Zenon
    <3> QED
      BY <1>4, <3>1, <3>2, <3>6, Zenon
  <2>7. CliMoved(p, now)
    BY <1>4, <2>6 DEF CliMoved
  <2>8. /\ now.step = "run" /\ now.cmd = me.cmd /\ now.data = me.data /\ now.other = source
        /\ now.base = me.base
        /\ now = [step |-> now.step, cmd |-> now.cmd, data |-> now.data, other |-> now.other,
                  base |-> now.base, status |-> now.status, out |-> now.out]
    BY <2>5 DEF CliAt
  <2>9. CliTyped(now)
    BY <1>3, <2>8 DEF CliTyped, Cli!Working
  <2>10. Cli!WorkInv(now)
    BY <1>2, <1>3, <1>8, <1>11, <2>8 DEF Cli!WorkInv, Cli!Working
  <2>11. ASSUME p \notin shared PROVE Cli!FileInv(now)
    <3>1. Cli!Reads(me.cmd.url) = me.base
      BY <1>2, <1>3, <2>11 DEF Cli!FileInv
    <3> QED
      BY <2>8, <3>1 DEF Cli!FileInv
  <2> QED
    BY <1>2, <1>9, <2>7, <2>9, <2>10, <2>11, CliReader
<1> QED
  BY <1>10, <1>11

\* A step to another point with the same data; a process that is killed.
LEMMA CliSteps ==
  ASSUME Cli!TypeInv, NEW p \in Process, NEW me, me = cli[p], me # Cli!Idle, NEW step,
         cli' = [cli EXCEPT ![p].step = step]
  PROVE  CliMoved(p, CliAt(me, step, me.data, me.other, me.status, me.out))
<1>1. CliTyped(me) /\ cli = [q \in Process |-> cli[q]]
  BY CliMoves DEF Cli!TypeInv
<1>2. me = [step |-> me.step, cmd |-> me.cmd, data |-> me.data, other |-> me.other,
            base |-> me.base, status |-> me.status, out |-> me.out]
  BY <1>1 DEF CliTyped
<1>3. PICK now : now = [me EXCEPT !.step = step]
  BY Zenon
<1>4. now = CliAt(me, step, me.data, me.other, me.status, me.out)
  BY <1>2, <1>3 DEF CliAt
<1>5. cli' = [cli EXCEPT ![p] = now]
  BY <1>1, <1>3
<1> QED
  BY <1>1, <1>4, <1>5 DEF CliMoved

LEMMA CliKilled ==
  ASSUME Cli!CliInv, NEW p \in Process, Cli!Kill(p)
  PROVE  Cli!CliInv'
<1>1. PICK me : me = cli[p]
  OBVIOUS
<1>2. me.step \in Cli!Working /\ me # Cli!Idle /\ UNCHANGED <<cliFile, shared>>
      /\ cli' = [cli EXCEPT ![p].step = "killed"]
  BY <1>1 DEF Cli!Kill, Cli!Working, Cli!Idle
<1>3. CliTyped(me) /\ Cli!WorkInv(me) /\ (p \notin shared => Cli!FileInv(me)) /\ Cli!TypeInv
  BY <1>1, <1>2, CliMoves DEF Cli!CliInv
<1>4. PICK now : now = CliAt(me, "killed", me.data, me.other, me.status, me.out)
  OBVIOUS
<1>5. CliMoved(p, now)
  BY <1>1, <1>2, <1>3, <1>4, CliSteps, Zenon
<1>6. /\ now.step = "killed" /\ now.cmd = me.cmd /\ now.base = me.base
      /\ now = [step |-> now.step, cmd |-> now.cmd, data |-> now.data, other |-> now.other,
                base |-> now.base, status |-> now.status, out |-> now.out]
  BY <1>4 DEF CliAt
<1>7. CliTyped(now) /\ Cli!WorkInv(now)
  BY <1>3, <1>6 DEF CliTyped, Cli!WorkInv, Cli!Working
<1>8. ASSUME p \notin shared PROVE Cli!FileInv(now)
  <2>1. Cli!Reads(me.cmd.url) \in {me.base, Blank}
    BY <1>2, <1>3, <1>8 DEF Cli!FileInv, Cli!Working
  <2> QED
    BY <1>6, <2>1 DEF Cli!FileInv
<1>9. /\ cliFile' \in [DOMAIN ConfStart -> Cli!Dict \cup {Absent, Blank}]
      /\ \A u \in DOMAIN ConfStart : Cli!Reads(u)' = Cli!Reads(u)
  BY <1>2, <1>3 DEF Cli!TypeInv, Cli!Reads
<1> QED
  BY <1>2, <1>5, <1>7, <1>8, <1>9, CliReader

\* Saving: what p comes to is what the file holds, and others that loaded it are
\* shared.
LEMMA CliWriter ==
  ASSUME Cli!CliInv, NEW p \in Process, NEW me, CliMoved(p, me), CliTyped(me), Cli!WorkInv(me),
         cli[p].cmd = me.cmd, Cli!Writes(p), NEW x \in Cli!Dict \cup {Blank},
         cliFile' = [cliFile EXCEPT ![me.cmd.url] = x],
         \/ me.step = "write" /\ x = Blank
         \/ /\ me.step = "ended" /\ me.status = 0 /\ me.cmd.op # "compare"
            /\ x = Cli!Meant(me.cmd, me.base, me.other)
  PROVE  Cli!CliInv'
<1>1. PICK url : url = me.cmd.url
  OBVIOUS
<1>2. cliFile \in [DOMAIN ConfStart -> Cli!Dict \cup {Absent, Blank}] /\ url \in DOMAIN ConfStart
  BY <1>1, CliUrl DEF Cli!CliInv, Cli!TypeInv
<1>3. cliFile' \in [DOMAIN ConfStart -> Cli!Dict \cup {Absent, Blank}]
  BY <1>1, <1>2
<1>4. x # Absent
  BY DictFacts, CliAssumption
<1>5. Cli!Reads(url)' = x
  BY <1>1, <1>2, <1>4 DEF Cli!Reads
<1>6. \A u \in DOMAIN ConfStart \ {url} : Cli!Reads(u)' = Cli!Reads(u)
  BY <1>1, <1>2 DEF Cli!Reads
<1>7. Cli!FileInv(me)'
  BY <1>1, <1>5 DEF Cli!FileInv
<1>8. ASSUME NEW q \in Process, NEW w, w = cli'[q], w # Cli!Idle
      PROVE  CliTyped(w) /\ Cli!WorkInv(w) /\ (q \notin shared' => Cli!FileInv(w)')
  <2>1. CASE q = p
    <3>1. w = me
      BY <1>8, <2>1 DEF CliMoved
    <3> QED
      BY <1>7, <3>1
  <2>2. CASE q # p
    <3>1. w = cli[q]
      BY <1>8, <2>2 DEF CliMoved
    <3>2. CliTyped(w) /\ Cli!WorkInv(w) /\ (q \notin shared => Cli!FileInv(w))
      BY <1>8, <3>1 DEF Cli!CliInv, Cli!TypeInv, CliTyped
    <3>3. ASSUME q \notin shared' PROVE Cli!FileInv(w)'
      <4>1. q \notin shared /\ w.cmd.url # url
        BY <1>1, <1>8, <2>2, <3>1, <3>3 DEF Cli!Writes
      <4>2. w.cmd.url \in DOMAIN ConfStart
        BY <3>2, CliUrl
      <4>3. Cli!Reads(w.cmd.url)' = Cli!Reads(w.cmd.url)
        BY <1>6, <4>1, <4>2
      <4> QED
        BY <3>2, <4>1, <4>3, Zenon DEF Cli!FileInv
    <3> QED
      BY <3>2, <3>3
  <2> QED
    BY <2>1, <2>2
<1>9. cli' = [q \in Process |-> cli'[q]]
  BY DEF CliMoved
<1>10. Cli!TypeInv'
  BY <1>3, <1>8, <1>9 DEF Cli!TypeInv, CliTyped
<1> QED
  BY <1>8, <1>10 DEF Cli!CliInv

LEMMA CliSaves ==
  ASSUME Cli!CliInv, NEW p \in Process, Cli!Open(p) \/ Cli!Write(p)
  PROVE  Cli!CliInv'
<1>1. PICK me : me = cli[p]
  OBVIOUS
<1>2. me.step \in {"save", "write"} /\ me # Cli!Idle /\ Cli!Writes(p)
  BY <1>1 DEF Cli!Open, Cli!Write, Cli!Idle
<1>3. CliTyped(me) /\ Cli!WorkInv(me) /\ Cli!TypeInv
  BY <1>1, <1>2, CliMoves DEF Cli!CliInv
<1>4. me.data \in Cli!Dict /\ me.data = Cli!Meant(me.cmd, me.base, me.other)
      /\ me.cmd.op # "compare"
  BY <1>2, <1>3 DEF Cli!WorkInv
<1>5. CASE Cli!Open(p)
  <2>1. PICK now : now = CliAt(me, "write", me.data, me.other, me.status, me.out)
    OBVIOUS
  <2>2. CliMoved(p, now)
    BY <1>1, <1>2, <1>3, <1>5, <2>1, CliSteps, Zenon DEF Cli!Open
  <2>3. /\ now.step = "write" /\ now.cmd = me.cmd /\ now.data = me.data
        /\ now.other = me.other /\ now.base = me.base
        /\ now = [step |-> now.step, cmd |-> now.cmd, data |-> now.data, other |-> now.other,
                  base |-> now.base, status |-> now.status, out |-> now.out]
    BY <2>1 DEF CliAt
  <2>4. CliTyped(now) /\ Cli!WorkInv(now)
    BY <1>2, <1>3, <1>4, <2>3 DEF CliTyped, Cli!WorkInv, Cli!Working
  <2>5. cliFile' = [cliFile EXCEPT ![now.cmd.url] = Blank]
    BY <1>1, <1>5, <2>3 DEF Cli!Open
  <2> QED
    BY <1>1, <1>2, <2>2, <2>3, <2>4, <2>5, CliWriter, Zenon
<1>6. CASE Cli!Write(p)
  <2>1. PICK status : status = 0
    OBVIOUS
  <2>2. PICK now : now = CliAt(me, "ended", me.data, me.other, status, None)
    OBVIOUS
  <2>3. CliMoved(p, now)
    BY <1>1, <1>2, <1>3, <1>6, <2>1, <2>2, CliMoves DEF Cli!Write
  <2>4. /\ now.step = "ended" /\ now.cmd = me.cmd /\ now.data = me.data
        /\ now.other = me.other /\ now.base = me.base /\ now.status = 0
        /\ now = [step |-> now.step, cmd |-> now.cmd, data |-> now.data, other |-> now.other,
                  base |-> now.base, status |-> now.status, out |-> now.out]
    BY <2>1, <2>2 DEF CliAt
  <2>5. CliTyped(now) /\ Cli!WorkInv(now)
    BY <1>3, <1>4, <2>4 DEF CliTyped, Cli!WorkInv, Cli!Working
  <2>6. cliFile' = [cliFile EXCEPT ![now.cmd.url] = me.data]
    BY <1>1, <1>6, <2>4 DEF Cli!Write
  <2> QED
    BY <1>1, <1>4, <1>2, <2>3, <2>4, <2>5, <2>6, CliWriter, Zenon
<1> QED
  BY <1>5, <1>6

-----------------------------------------------------------------------------
\* Of conf commands that overlap, the one that wrote a file last and exited with 0 has
\* made of what it had loaded what it is for (for copy: nothing), a lost update of the
\* others included; one that fails has left the file as it was, and one that is killed
\* has left it so or empty, until another one writes (main() of conf_cli.py, lines
\* 357-366; save() of conf_store.py).
THEOREM CommandCorrect == Spec => []CommandLands
<1> DEFINE Inv == part = "cli" => Cli!CliInv
<1>1. ASSUME Init PROVE Inv
  <2>1. cliFile = ConfStart /\ cli = [p \in Process |-> Cli!Idle]
    BY <1>1 DEF Init, Cli!Init
  <2>2. cliFile \in [DOMAIN ConfStart -> Cli!Dict \cup {Absent, Blank}]
    BY <2>1, CliAssumption
  <2> QED
    BY <2>1, <2>2 DEF Cli!CliInv, Cli!TypeInv
<1>2. ASSUME Inv, [Next]_vars PROVE Inv'
  <2>1. CASE part = "cli" /\ Cli!Next /\ part' = part
    <3>1. Cli!CliInv
      BY <1>2, <2>1
    <3>2. PICK p \in Process :
            \/ \E c \in ConfCalls : Cli!Refuse(p, c) \/ Cli!Load(p, c)
            \/ Cli!LoadSecond(p) \/ Cli!Kill(p)
            \/ Cli!Set(p) \/ Cli!AddNumKeys(p) \/ Cli!Delete(p) \/ Cli!Merge(p) \/ Cli!Copy(p)
            \/ Cli!Compare(p) \/ Cli!Get(p) \/ Cli!Diff(p) \/ Cli!GetKeys(p) \/ Cli!Search(p)
            \/ Cli!Open(p) \/ Cli!Write(p)
      BY <2>1 DEF Cli!Next
    <3>3. Cli!CliInv'
      BY <3>1, <3>2, CliLoads, CliLoadsSecond, CliKilled, CliSet, CliNum, CliDelete, CliMerge,
         CliCopy, CliLooks, CliSaves
    <3> QED
      BY <3>3
  <2>2. CASE part' = part /\ UNCHANGED cliVars
    <3>1. \A me : Cli!FileInv(me)' <=> Cli!FileInv(me)
      BY <2>2 DEF cliVars, Cli!FileInv, Cli!Reads
    <3>2. Cli!TypeInv => Cli!TypeInv'
      BY <2>2 DEF cliVars, Cli!TypeInv
    <3>3. Cli!CliInv => Cli!CliInv'
      BY <2>2, <3>1, <3>2 DEF cliVars, Cli!CliInv
    <3> QED
      BY <1>2, <2>2, <3>3
  <2>3. CASE part # "cli" /\ part' = part
    BY <2>3
  <2> QED
    BY <1>2, <2>1, <2>2, <2>3 DEF Next, vars
<1>3. Inv => CommandLands
  <2>1. ASSUME Cli!CliInv PROVE Cli!CommandLands
    <3>1. ASSUME NEW p \in Process, NEW me, me = cli[p], me # Cli!Idle, p \notin shared
          PROVE  /\ me.step = "ended" =>
                      Cli!Reads(me.cmd.url) = IF me.status = 0
                                              THEN Cli!Meant(me.cmd, me.base, me.other)
                                              ELSE me.base
                 /\ me.step = "killed" => Cli!Reads(me.cmd.url) \in {me.base, Blank}
                 /\ me.step = "ended" /\ me.status = 0 /\ me.cmd.op = "compare" =>
                      DOMAIN me.other = (DOMAIN me.base \cup me.out.new) \ me.out.deleted
      <4>1. Cli!WorkInv(me) /\ Cli!FileInv(me)
        BY <2>1, <3>1 DEF Cli!CliInv
      <4> QED
        BY <4>1 DEF Cli!WorkInv, Cli!FileInv
    <3> QED
      BY <3>1 DEF Cli!CommandLands
  <2> QED
    BY <2>1 DEF CommandLands
<1> QED
  BY <1>1, <1>2, <1>3, PTL DEF Spec

-----------------------------------------------------------------------------
(* The commands that set up the utilities.                                 *)

\* The exit status is one of the few that there are, and 0 only for two outcomes.
LEMMA StatusRange ==
  ASSUME NEW product \in Setup!Products, NEW outcome \in Setup!Outcomes
  PROVE  /\ Setup!Status(product, outcome) \in {0, 1, 2, Setup!EINVAL}
         /\ Setup!Status(product, outcome) = 0 => outcome \in {"done", "quit"}
BY DEF Setup!Status, Setup!SetupError, Setup!KafkaError, Setup!ConsulError, Setup!SearchError,
   Setup!LdapError, Setup!EINVAL, Setup!Products, Setup!Outcomes

\* What the work of a phase reads is among the keys that its checks look for.
LEMMA UsedIsChecked ==
  ASSUME NEW ph
  PROVE  /\ Setup!Used(ph) \subseteq Setup!YardstickList(ph)
         /\ "count" \in Setup!Used(ph) => "nodes" \in Setup!YardstickList(ph)
         /\ ph \in {"config", "test"} => "secret" \in Setup!YardstickList(ph)
         /\ ph = "config" => "cluster" \in Setup!YardstickList(ph)
<1>1. Setup!PhaseKeys(ph) \subseteq Setup!YardstickList(ph)
  BY DEF Setup!YardstickList, Setup!PhasesToValidate
<1>2. Setup!Used(ph) \subseteq Setup!PhaseKeys(ph)
  BY DEF Setup!Used, Setup!PhaseKeys
<1>3. /\ "count" \in Setup!Used(ph) => "nodes" \in Setup!PhaseKeys(ph)
      /\ ph \in {"config", "test"} => "secret" \in Setup!PhaseKeys(ph)
      /\ ph = "config" => "cluster" \in Setup!PhaseKeys(ph)
  BY DEF Setup!Used, Setup!PhaseKeys
<1> QED
  BY <1>1, <1>2, <1>3

\* init, though it needs no keys itself, looks for those of config.
LEMMA InitChecksConfig == Setup!PhaseKeys("config") \subseteq Setup!YardstickList("init")
<1>1. "config" \in Setup!PhasesToValidate("init")
  BY DEF Setup!PhasesToValidate, Setup!PhasesBefore
<1> QED
  BY <1>1 DEF Setup!YardstickList

\* A command that goes on, and one that ends, differ from before in these fields.
LEMMA GotoFields ==
  ASSUME NEW next \in Setup!Steps, cmd \in Setup!Command, Setup!Goto(next)
  PROVE  /\ cmd' \in Setup!Command /\ cmd'.step = next
         /\ cmd'.product = cmd.product /\ cmd'.phase = cmd.phase
         /\ cmd'.seen = cmd.seen /\ cmd'.mine = cmd.mine
         /\ cmd'.outcome = cmd.outcome /\ cmd'.status = cmd.status
BY DEF Setup!Goto, Setup!Command

\* A command that ends has its exit status.
LEMMA ExitFields ==
  ASSUME NEW outcome \in Setup!Outcomes, cmd \in Setup!Command, Setup!Exit(outcome)
  PROVE  /\ cmd' \in Setup!Command /\ cmd'.step = "ended"
         /\ cmd'.product = cmd.product /\ cmd'.phase = cmd.phase
         /\ cmd'.seen = cmd.seen /\ cmd'.mine = cmd.mine
         /\ cmd'.outcome = outcome
         /\ cmd'.status = 0 => outcome \in {"done", "quit"}
<1>1. Setup!Status(cmd.product, outcome) \in {0, 1, 2, Setup!EINVAL}
      /\ (Setup!Status(cmd.product, outcome) = 0 => outcome \in {"done", "quit"})
  BY StatusRange DEF Setup!Command
<1> DEFINE st == Setup!Status(cmd.product, outcome)
<1>2. cmd' = [cmd EXCEPT !.step = "ended", !.outcome = outcome, !.status = st]
  BY DEF Setup!Exit
<1>3. st \in {0, 1, 2, Setup!EINVAL} /\ (st = 0 => outcome \in {"done", "quit"})
  BY <1>1
<1> HIDE DEF st
<1>4. cmd' \in Setup!Command
  BY <1>2, <1>3 DEF Setup!Command, Setup!Steps
<1> QED
  BY <1>2, <1>3, <1>4 DEF Setup!Command

-----------------------------------------------------------------------------
\* Every step keeps the invariant: one case per action.
LEMMA SetupStep == Setup!SetupInv /\ [Setup!Next]_(Setup!vars) => Setup!SetupInv'
<1> SUFFICES ASSUME Setup!SetupInv, [Setup!Next]_(Setup!vars) PROVE Setup!SetupInv'
  OBVIOUS
<1> USE DEF Setup!SetupInv
<1>t. Setup!TypeOK /\ (cmd = Setup!Idle \/ cmd \in Setup!Command)
  BY DEF Setup!TypeOK
<1>1. ASSUME NEW product \in Setup!Products, NEW ph \in Setup!Basic \cup Setup!Upgrades, NEW given \in BOOLEAN,
             Setup!GetCommand(product, ph, given)
      PROVE  Setup!SetupInv'
  <2> DEFINE outcome == CASE product = "kafka" -> Setup!KafkaCommand(ph, given)
                          [] product = "consul" -> Setup!ConsulCommand(ph, given)
                          [] product = "elasticsearch" -> Setup!SearchCommand(ph, given)
                          [] product = "openldap" -> Setup!LdapCommand(ph, given)
  <2> DEFINE st == IF outcome = None THEN None ELSE Setup!Status(product, outcome)
  <2>1. outcome \in {"usage", "exception", None}
    BY DEF Setup!Products, Setup!KafkaCommand, Setup!ConsulCommand, Setup!SearchCommand, Setup!LdapCommand
  <2>2. cmd' = [step |-> IF outcome = None THEN "validate" ELSE "ended",
                product |-> product, phase |-> ph, seen |-> input, mine |-> None,
                outcome |-> outcome, status |-> st]
    BY <1>1 DEF Setup!GetCommand
  <2>3. st \in {1, 2, Setup!EINVAL, None} /\ (outcome # None => st # 0)
    <3>1. CASE outcome = None
      BY <3>1
    <3>2. CASE outcome # None
      <4>1. outcome \in {"usage", "exception"}
        BY <2>1, <3>2
      <4> HIDE DEF outcome
      <4>2. Setup!Status(product, outcome) \in {2, Setup!EINVAL}
        BY <4>1 DEF Setup!Status
      <4> QED
        BY <3>2, <4>2 DEF Setup!EINVAL
    <3> QED
      BY <3>1, <3>2
  <2>4. creds' = creds /\ input' = input
    BY <1>1 DEF Setup!GetCommand
  <2> HIDE DEF outcome, st
  <2>5. cmd' \in Setup!Command
    BY <1>t, <2>1, <2>2, <2>3 DEF Setup!Command, Setup!Steps, Setup!Outcomes, Setup!TypeOK
  <2>6. /\ cmd'.step \in {"validate", "ended"}
        /\ cmd'.step = "ended" => cmd'.outcome \in {"usage", "exception"} /\ cmd'.status # 0
    BY <2>1, <2>2, <2>3
  <2> QED
    BY <1>t, <2>4, <2>5, <2>6 DEF Setup!TypeOK, Setup!LdapInv, Setup!LoadsLdap
<1>2. CASE Setup!Kill
  <2>1. cmd \in Setup!Command
    BY <1>2, <1>t DEF Setup!Kill, Setup!Idle
  <2>2. cmd' \in Setup!Command /\ cmd'.step = "killed"
    BY <1>2, <2>1, GotoFields DEF Setup!Kill, Setup!Steps
  <2> QED
    BY <1>2, <1>t, <2>2 DEF Setup!Kill, Setup!TypeOK, Setup!LdapInv, Setup!LoadsLdap
<1>3. CASE Setup!Validate
  <2>1. cmd \in Setup!Command /\ cmd # Setup!Idle
    BY <1>3, <1>t DEF Setup!Validate, Setup!Idle
  <2>2. \/ Setup!Exit("exception") \/ Setup!Exit("setup_error")
        \/ cmd.product = "openldap" /\ Setup!Goto("keys")
        \/ cmd.product # "openldap" /\ Setup!Goto("work")
    BY <1>3 DEF Setup!Validate
  <2>3. UNCHANGED <<creds, input>>
    BY <1>3 DEF Setup!Validate
  <2>4. \/ /\ cmd' \in Setup!Command /\ cmd'.step = "ended"
           /\ cmd'.outcome \in {"exception", "setup_error"} /\ cmd'.status # 0
        \/ cmd' \in Setup!Command /\ cmd'.step = "keys" /\ cmd'.product = "openldap"
        \/ cmd' \in Setup!Command /\ cmd'.step = "work" /\ cmd'.product # "openldap"
    <3>1. CASE Setup!Exit("exception")
      BY <2>1, <3>1, ExitFields DEF Setup!Outcomes
    <3>2. CASE Setup!Exit("setup_error")
      BY <2>1, <3>2, ExitFields DEF Setup!Outcomes
    <3>3. CASE cmd.product = "openldap" /\ Setup!Goto("keys")
      BY <2>1, <3>3, GotoFields DEF Setup!Steps
    <3>4. CASE cmd.product # "openldap" /\ Setup!Goto("work")
      BY <2>1, <3>4, GotoFields DEF Setup!Steps
    <3> QED
      BY <2>2, <3>1, <3>2, <3>3, <3>4
  <2> QED
    BY <1>t, <2>3, <2>4 DEF Setup!TypeOK, Setup!LdapInv, Setup!LoadsLdap
<1>4. CASE Setup!KeysValidate
  <2>1. cmd \in Setup!Command /\ cmd # Setup!Idle /\ cmd.product = "openldap"
    BY <1>4, <1>t DEF Setup!KeysValidate, Setup!Idle, Setup!LoadsLdap
  <2>2. UNCHANGED <<creds, input>>
    BY <1>4 DEF Setup!KeysValidate
  <2>3. \/ Setup!Exit("exception")
        \/ Setup!Passed(cmd) /\ (Setup!Goto("load") \/ Setup!Goto("work"))
    BY <1>4 DEF Setup!KeysValidate, Setup!KeyValueVerify, Setup!Passed
  <2>4. CASE Setup!Exit("exception")
    <3>1. /\ cmd' \in Setup!Command /\ cmd'.step = "ended"
          /\ cmd'.outcome = "exception" /\ cmd'.status # 0
      BY <2>1, <2>4, ExitFields DEF Setup!Outcomes
    <3> QED
      BY <1>t, <2>2, <3>1 DEF Setup!TypeOK, Setup!LdapInv, Setup!LoadsLdap
  <2>5. ASSUME Setup!Passed(cmd), NEW next \in {"load", "work"}, Setup!Goto(next) PROVE Setup!SetupInv'
    <3>1. /\ cmd' \in Setup!Command /\ cmd'.step = next /\ cmd'.product = "openldap"
          /\ cmd'.phase = cmd.phase /\ cmd'.seen = cmd.seen
      BY <2>1, <2>5, GotoFields DEF Setup!Steps
    <3>2. Setup!Passed(cmd')
      BY <2>5, <3>1 DEF Setup!Passed
    <3> QED
      BY <1>t, <2>2, <3>1, <3>2 DEF Setup!TypeOK, Setup!LdapInv, Setup!LoadsLdap
  <2> QED
    BY <2>3, <2>4, <2>5
<1>5. CASE Setup!LoadAgain
  <2>1. cmd \in Setup!Command /\ cmd # Setup!Idle /\ cmd.product = "openldap"
    BY <1>5, <1>t DEF Setup!LoadAgain, Setup!Idle, Setup!LoadsLdap
  <2>2. UNCHANGED <<creds, input>> /\ Setup!Passed(cmd)
    BY <1>5, <2>1 DEF Setup!LoadAgain, Setup!LdapInv
  <2> DEFINE next == CASE cmd.phase = "config" -> "cluster_id"
                       [] cmd.phase = "test" -> "credentials"
                       [] OTHER -> "use"
  <2>3. cmd' = [cmd EXCEPT !.mine = input, !.step = next]
    BY <1>5 DEF Setup!LoadAgain
  <2>4. /\ next \in {"cluster_id", "credentials", "use"}
        /\ next = "cluster_id" => cmd.phase = "config"
        /\ next = "credentials" => cmd.phase = "test"
    OBVIOUS
  <2> HIDE DEF next
  <2>5. /\ cmd' \in Setup!Command /\ cmd'.step = next /\ cmd'.mine = input
        /\ cmd'.product = "openldap" /\ cmd'.phase = cmd.phase /\ cmd'.seen = cmd.seen
    BY <1>t, <2>1, <2>3, <2>4 DEF Setup!Command, Setup!Steps, Setup!TypeOK
  <2>6. Setup!Passed(cmd')
    BY <2>2, <2>5 DEF Setup!Passed
  <2> QED
    BY <1>t, <2>2, <2>4, <2>5, <2>6 DEF Setup!TypeOK, Setup!LdapInv, Setup!LoadsLdap
<1>6. CASE Setup!UpdateClusterId
  <2>1. cmd \in Setup!Command /\ cmd # Setup!Idle /\ cmd.product = "openldap"
    BY <1>6, <1>t DEF Setup!UpdateClusterId, Setup!Idle, Setup!LoadsLdap
  <2>2. Setup!Passed(cmd) /\ cmd.phase = "config" /\ cmd.mine \in Inputs /\ input' = input
    BY <1>6, <2>1 DEF Setup!UpdateClusterId, Setup!LdapInv
  <2>3. CASE Setup!Exit("exception") /\ UNCHANGED creds
    <3>1. /\ cmd' \in Setup!Command /\ cmd'.step = "ended"
          /\ cmd'.outcome = "exception" /\ cmd'.status # 0
      BY <2>1, <2>3, ExitFields DEF Setup!Outcomes
    <3> QED
      BY <1>t, <2>2, <2>3, <3>1 DEF Setup!TypeOK, Setup!LdapInv, Setup!LoadsLdap
  <2>4. CASE /\ creds' = [creds EXCEPT !.cluster = cmd.mine.cluster]
             /\ "cluster" \in cmd.mine.keys /\ Setup!Goto("credentials")
    <3>1. /\ cmd' \in Setup!Command /\ cmd'.step = "credentials" /\ cmd'.product = "openldap"
          /\ cmd'.phase = "config" /\ cmd'.seen = cmd.seen /\ cmd'.mine = cmd.mine
      BY <2>1, <2>2, <2>4, GotoFields DEF Setup!Steps
    <3>2. Setup!Passed(cmd')
      BY <2>2, <3>1 DEF Setup!Passed
    <3>3. cmd.mine.cluster \in Setup!ClusterIds
      BY <2>2 DEF Setup!ClusterIds
    <3>4. creds' \in [cluster : Setup!ClusterIds, secret : Setup!ClusterIds] /\ creds'.cluster = cmd.mine.cluster
      BY <1>t, <2>4, <3>3 DEF Setup!TypeOK
    <3> QED
      BY <1>t, <2>2, <3>1, <3>2, <3>4 DEF Setup!TypeOK, Setup!LdapInv, Setup!LoadsLdap
  <2>5. CASE /\ creds' = [creds EXCEPT !.cluster = "None"]
             /\ "cluster" \notin cmd.mine.keys /\ Setup!Exit("missing")
    <3>1. /\ cmd' \in Setup!Command /\ cmd'.step = "ended" /\ cmd'.product = "openldap"
          /\ cmd'.phase = "config" /\ cmd'.seen = cmd.seen /\ cmd'.mine = cmd.mine
          /\ cmd'.outcome = "missing" /\ cmd'.status # 0
      BY <2>1, <2>2, <2>5, ExitFields DEF Setup!Outcomes
    <3>2. "cluster" \in cmd.seen.keys
      BY <2>2, UsedIsChecked DEF Setup!Passed
    <3>3. Setup!Incomplete(cmd')
      BY <2>5, <3>1, <3>2 DEF Setup!Incomplete
    <3>4. creds' \in [cluster : Setup!ClusterIds, secret : Setup!ClusterIds]
      BY <1>t, <2>5 DEF Setup!TypeOK, Setup!ClusterIds
    <3> QED
      BY <1>t, <2>2, <3>1, <3>3, <3>4 DEF Setup!TypeOK, Setup!LdapInv, Setup!LoadsLdap
  <2> QED
    BY <1>6, <2>3, <2>4, <2>5 DEF Setup!UpdateClusterId
<1>7. CASE Setup!UpdateCredentials
  <2>1. cmd \in Setup!Command /\ cmd # Setup!Idle /\ cmd.product = "openldap"
    BY <1>7, <1>t DEF Setup!UpdateCredentials, Setup!Idle, Setup!LoadsLdap
  <2>2. /\ Setup!Passed(cmd) /\ cmd.phase \in {"config", "test"} /\ cmd.mine \in Inputs
        /\ cmd.phase = "config" => creds.cluster = cmd.mine.cluster
        /\ input' = input
    BY <1>7, <2>1 DEF Setup!UpdateCredentials, Setup!LdapInv
  <2>3. CASE /\ creds' = [creds EXCEPT !.secret = cmd.mine.cluster]
             /\ "secret" \in cmd.mine.keys /\ Setup!Goto("read")
    <3>1. /\ cmd' \in Setup!Command /\ cmd'.step = "read" /\ cmd'.product = "openldap"
          /\ cmd'.phase = cmd.phase /\ cmd'.seen = cmd.seen /\ cmd'.mine = cmd.mine
      BY <2>1, <2>3, GotoFields DEF Setup!Steps
    <3>2. Setup!Passed(cmd')
      BY <2>2, <3>1 DEF Setup!Passed
    <3>3. cmd.mine.cluster \in Setup!ClusterIds
      BY <2>2 DEF Setup!ClusterIds
    <3>4. /\ creds' \in [cluster : Setup!ClusterIds, secret : Setup!ClusterIds]
          /\ creds'.cluster = creds.cluster /\ creds'.secret = cmd.mine.cluster
      BY <1>t, <2>3, <3>3 DEF Setup!TypeOK
    <3> QED
      BY <1>t, <2>2, <3>1, <3>2, <3>4 DEF Setup!TypeOK, Setup!LdapInv, Setup!LoadsLdap
  <2>4. CASE "secret" \notin cmd.mine.keys /\ Setup!Exit("missing") /\ UNCHANGED creds
    <3>1. /\ cmd' \in Setup!Command /\ cmd'.step = "ended" /\ cmd'.product = "openldap"
          /\ cmd'.seen = cmd.seen /\ cmd'.mine = cmd.mine
          /\ cmd'.outcome = "missing" /\ cmd'.status # 0
      BY <2>1, <2>4, ExitFields DEF Setup!Outcomes
    <3>2. "secret" \in cmd.seen.keys
      BY <2>2, UsedIsChecked DEF Setup!Passed
    <3>3. Setup!Incomplete(cmd')
      BY <2>4, <3>1, <3>2 DEF Setup!Incomplete
    <3> QED
      BY <1>t, <2>2, <2>4, <3>1, <3>3 DEF Setup!TypeOK, Setup!LdapInv, Setup!LoadsLdap
  <2> QED
    BY <1>7, <2>3, <2>4 DEF Setup!UpdateCredentials
<1>8. CASE Setup!ReadCredentials
  <2>1. cmd \in Setup!Command /\ cmd # Setup!Idle /\ cmd.product = "openldap"
    BY <1>8, <1>t DEF Setup!ReadCredentials, Setup!Idle, Setup!LoadsLdap
  <2>2. /\ Setup!Passed(cmd) /\ cmd.mine \in Inputs
        /\ cmd.phase = "config" => creds.cluster = creds.secret
        /\ UNCHANGED <<creds, input>>
    BY <1>8, <2>1 DEF Setup!ReadCredentials, Setup!LdapInv
  <2>3. CASE Setup!Goto("use")
    <3>1. /\ cmd' \in Setup!Command /\ cmd'.step = "use" /\ cmd'.product = "openldap"
          /\ cmd'.phase = cmd.phase /\ cmd'.seen = cmd.seen /\ cmd'.mine = cmd.mine
      BY <2>1, <2>3, GotoFields DEF Setup!Steps
    <3>2. Setup!Passed(cmd')
      BY <2>2, <3>1 DEF Setup!Passed
    <3> QED
      BY <1>t, <2>2, <3>1, <3>2 DEF Setup!TypeOK, Setup!LdapInv, Setup!LoadsLdap
  <2>4. CASE creds.cluster # creds.secret /\ Setup!Exit("undecrypted")
    <3>1. /\ cmd' \in Setup!Command /\ cmd'.step = "ended" /\ cmd'.phase = cmd.phase
          /\ cmd'.outcome = "undecrypted" /\ cmd'.status # 0
      BY <2>1, <2>4, ExitFields DEF Setup!Outcomes
    <3> QED
      BY <1>t, <2>2, <2>4, <3>1 DEF Setup!TypeOK, Setup!LdapInv, Setup!LoadsLdap
  <2> QED
    BY <1>8, <2>3, <2>4 DEF Setup!ReadCredentials
<1>9. CASE Setup!Use
  <2>1. cmd \in Setup!Command /\ cmd # Setup!Idle /\ cmd.product = "openldap"
    BY <1>9, <1>t DEF Setup!Use, Setup!Idle, Setup!LoadsLdap
  <2>2. Setup!Passed(cmd) /\ UNCHANGED <<creds, input>>
    BY <1>9, <2>1 DEF Setup!Use, Setup!LdapInv
  <2>3. CASE Setup!Goto("work")
    <3>1. /\ cmd' \in Setup!Command /\ cmd'.step = "work" /\ cmd'.product = "openldap"
          /\ cmd'.phase = cmd.phase /\ cmd'.seen = cmd.seen
      BY <2>1, <2>3, GotoFields DEF Setup!Steps
    <3>2. Setup!Passed(cmd')
      BY <2>2, <3>1 DEF Setup!Passed
    <3> QED
      BY <1>t, <2>2, <3>1, <3>2 DEF Setup!TypeOK, Setup!LdapInv, Setup!LoadsLdap
  <2>4. CASE Setup!Exit("missing") /\ ~Setup!Goto("work")
    <3>1. /\ cmd' \in Setup!Command /\ cmd'.step = "ended" /\ cmd'.product = "openldap"
          /\ cmd'.seen = cmd.seen /\ cmd'.mine = cmd.mine
          /\ cmd'.outcome = "missing" /\ cmd'.status # 0
      BY <2>1, <2>4, ExitFields DEF Setup!Outcomes
    <3>2. ~ /\ Setup!Used(cmd.phase) \subseteq cmd.mine.keys
            /\ "count" \in Setup!Used(cmd.phase) =>
                 "nodes" \in cmd.mine.keys /\ \A s \in 0..cmd.mine.count - 1 : s \in cmd.mine.sets
      BY <1>9, <2>4 DEF Setup!Use
    <3>3. /\ Setup!Used(cmd.phase) \subseteq cmd.seen.keys
          /\ "count" \in Setup!Used(cmd.phase) => "nodes" \in cmd.seen.keys
      BY <2>2, UsedIsChecked DEF Setup!Passed
    <3>4. Setup!Incomplete(cmd)
      BY <3>2, <3>3 DEF Setup!Incomplete
    <3>5. Setup!Incomplete(cmd')
      BY <3>1, <3>4 DEF Setup!Incomplete
    <3> QED
      BY <1>t, <2>2, <3>1, <3>5 DEF Setup!TypeOK, Setup!LdapInv, Setup!LoadsLdap
  <2> QED
    BY <1>9, <2>3, <2>4 DEF Setup!Use
<1>10. CASE Setup!Work
  <2>1. cmd \in Setup!Command /\ cmd # Setup!Idle
    BY <1>10, <1>t DEF Setup!Work, Setup!Idle
  <2>2. UNCHANGED <<creds, input>> /\ (cmd.product = "openldap" => Setup!Passed(cmd))
    BY <1>10, <2>1 DEF Setup!Work, Setup!LdapInv
  <2>3. PICK outcome \in {"done"} \cup Setup!Failures(cmd.product, cmd.phase) : Setup!Exit(outcome)
    BY <1>10 DEF Setup!Work
  <2>4. outcome \in {"done", "exception", "setup_error", "quit"}
    BY DEF Setup!Failures, Setup!QuitFailures, Setup!TestFailures, Setup!ResetFailures
  <2>5. /\ cmd' \in Setup!Command /\ cmd'.step = "ended" /\ cmd'.product = cmd.product
        /\ cmd'.phase = cmd.phase /\ cmd'.seen = cmd.seen /\ cmd'.outcome = outcome
    BY <2>1, <2>3, <2>4, ExitFields DEF Setup!Outcomes
  <2>6. cmd'.product = "openldap" => Setup!Passed(cmd')
    BY <2>2, <2>5 DEF Setup!Passed
  <2> QED
    BY <1>t, <2>2, <2>4, <2>5, <2>6 DEF Setup!TypeOK, Setup!LdapInv, Setup!LoadsLdap
<1>11. CASE Setup!Change
  BY <1>11 DEF Setup!Change, Setup!TypeOK, Setup!LdapInv, Setup!LoadsLdap
<1>12. CASE UNCHANGED Setup!vars
  BY <1>12 DEF Setup!vars, Setup!TypeOK, Setup!LdapInv, Setup!LoadsLdap
<1> QED
  BY <1>1, <1>2, <1>3, <1>4, <1>5, <1>6, <1>7, <1>8, <1>9, <1>10, <1>11, <1>12 DEF Setup!Next

\* No command has run yet.
LEMMA SetupInit == Setup!Init => Setup!SetupInv
BY DEF Setup!Init, Setup!SetupInv, Setup!TypeOK, Setup!LdapInv, Setup!LoadsLdap, Setup!ClusterIds

\* The steps of PyUtils that end in a setup command are its own.
LEMMA SetupSteps == [Next]_vars /\ part' = "command" => part = "command" /\ [Setup!Next]_(Setup!vars)
BY DEF Next, vars, commandVars, Setup!vars

\* The commands and credentials of the setup commands are well typed (setupcmd.py).
THEOREM SetupTypeCorrect == Spec => [](part = "command" => Setup!TypeOK)
<1> DEFINE Inv == part = "command" => Setup!SetupInv
<1>1. Init => Inv
  BY SetupInit DEF Init
<1>2. Inv /\ [Next]_vars => Inv'
  BY SetupSteps, SetupStep
<1>3. Inv => (part = "command" => Setup!TypeOK)
  BY DEF Setup!SetupInv
<1> QED
  BY <1>1, <1>2, <1>3, PTL DEF Spec

\* What the checks of a phase promise holds for any set of hosts and configurations,
\* and any number of commands, kills and replaced configurations: a key that was
\* checked is not missing later, config reads back credentials that fit together,
\* and init has seen the keys of config (openldap.py lines 78-226, setupcmd.py
\* lines 95-160).
THEOREM ChecksCorrect == Spec => []ChecksSuffice
<1> DEFINE Inv == part = "command" => Setup!SetupInv
<1>1. Init => Inv
  BY SetupInit DEF Init
<1>2. Inv /\ [Next]_vars => Inv'
  BY SetupSteps, SetupStep
<1>3. Setup!SetupInv => Setup!ChecksSuffice
  <2> SUFFICES ASSUME Setup!SetupInv, cmd.step = "ended", cmd.product = "openldap"
               PROVE  /\ ~Setup!Incomplete(cmd) => cmd.outcome # "missing"
                      /\ cmd.phase = "config" => cmd.outcome # "undecrypted"
                      /\ cmd.status = 0 /\ cmd.phase = "init" =>
                           Setup!PhaseKeys("config") \subseteq cmd.seen.keys
    BY DEF Setup!ChecksSuffice, Setup!Incomplete
  <2>1. cmd # Setup!Idle
    BY DEF Setup!Idle
  <2> QED
    BY <2>1, InitChecksConfig DEF Setup!SetupInv, Setup!LdapInv, Setup!Passed
<1>4. Inv => ChecksSuffice
  BY <1>3 DEF ChecksSuffice
<1> QED
  BY <1>1, <1>2, <1>4, PTL DEF Spec

-----------------------------------------------------------------------------
(* utils_setup.                                                            *)

\* A record of a run after some of its fields changed.
LEMMA RunFields ==
  ASSUME NEW r \in Utils!Runs,
         NEW s \in {"import", "work", "create", "list", "delete", "deregister", "save", "ended"},
         NEW l \in SUBSET Type, NEW m \in SUBSET Type, NEW d \in BOOLEAN, NEW o \in {None, "done", "error"}
  PROVE  /\ [r EXCEPT !.step = s] \in Utils!Runs /\ [r EXCEPT !.step = s, !.outcome = o] \in Utils!Runs
         /\ [r EXCEPT !.step = s, !.list = l] \in Utils!Runs
         /\ [r EXCEPT !.list = l, !.step = s, !.outcome = o] \in Utils!Runs
         /\ [r EXCEPT !.step = s, !.found = m, !.outcome = o] \in Utils!Runs
         /\ [r EXCEPT !.disturbed = d] \in Utils!Runs
<1>1. [r EXCEPT !.step = s] \in Utils!Runs /\ [r EXCEPT !.step = s, !.outcome = o] \in Utils!Runs
  BY DEF Utils!Runs
<1>2. [r EXCEPT !.step = s, !.list = l] \in Utils!Runs
  BY DEF Utils!Runs
<1>3. [r EXCEPT !.list = l, !.step = s, !.outcome = o] \in Utils!Runs
  BY DEF Utils!Runs
<1>4. [r EXCEPT !.step = s, !.found = m, !.outcome = o] \in Utils!Runs
  BY DEF Utils!Runs
<1>5. [r EXCEPT !.disturbed = d] \in Utils!Runs
  BY DEF Utils!Runs
<1> QED
  BY <1>1, <1>2, <1>3, <1>4, <1>5

\* One run changes, and no broker loses a type.
LEMMA RunChanges ==
  ASSUME Utils!UtilsInv, NEW n \in Node, NEW r \in Utils!Runs,
         utRun' = [utRun EXCEPT ![n] = r], gconf' \in [Node -> Utils!Confs],
         topics' \in [Broker -> SUBSET Type], \A b \in Broker : topics[b] \subseteq topics'[b],
         Utils!RunInv(r)'
  PROVE  Utils!UtilsInv'
<1>1. /\ utRun' \in [Node -> Utils!Runs \cup {Utils!Idle}]
      /\ utRun'[n] = r /\ \A m \in Node : m # n => utRun'[m] = utRun[m]
  BY DEF Utils!UtilsInv
<1>2. ASSUME NEW m \in Node, utRun'[m] \in Utils!Runs PROVE Utils!RunInv(utRun[m])'
  <2>1. CASE m = n
    BY <1>1, <2>1 DEF Utils!RunInv, Utils!Registered
  <2>2. CASE m # n
    <3>1. utRun'[m] = utRun[m] /\ Utils!RunInv(utRun[m])
      BY <1>1, <1>2, <2>2 DEF Utils!UtilsInv
    <3>2. ASSUME NEW x \in Utils!Runs, Utils!Registered(x) PROVE Utils!Registered(x)'
      BY <3>2 DEF Utils!Registered
    <3>3. PICK x : x = utRun[m]
      OBVIOUS
    <3>4. Utils!RunInv(x)'
      BY <1>2, <3>1, <3>2, <3>3 DEF Utils!RunInv
    <3> QED
      BY <3>1, <3>3, <3>4 DEF Utils!RunInv, Utils!Registered
  <2> QED
    BY <2>1, <2>2
<1> QED
  BY <1>1, <1>2 DEF Utils!UtilsInv

\* A run that is under way.
LEMMA UnderWay ==
  ASSUME Utils!UtilsInv, NEW n \in Node, utRun[n].step # "ended"
  PROVE  utRun[n] \in Utils!Runs /\ Utils!RunInv(utRun[n])
BY DEF Utils!UtilsInv, Utils!Idle

\* Cmd.get_command() and the first step of a phase.
LEMMA EnterKeeps ==
  ASSUME Utils!UtilsInv, NEW n \in Node,
         NEW ph \in {"post_install", "config", "test", "init", "reset", "cleanup"} \cup Utils!Hooks,
         NEW s \in {"import", "work", "create", "list"}, ph = "init" => s = "create",
         Utils!Enter(n, ph, s), gconf' = gconf, topics' = topics
  PROVE  Utils!UtilsInv'
<1>0. PICK r : r = [phase |-> ph, step |-> s, conf |-> gconf[n], delta |-> None, list |-> {},
                    found |-> {}, disturbed |-> FALSE, outcome |-> None]
  OBVIOUS
<1>1. gconf[n] \in Utils!Confs /\ gconf \in [Node -> Utils!Confs] /\ topics \in [Broker -> SUBSET Type]
  BY DEF Utils!UtilsInv
<1>2. utRun' = [utRun EXCEPT ![n] = r]
  BY <1>0 DEF Utils!Enter
<1>3. r \in Utils!Runs
  BY <1>0, <1>1 DEF Utils!Runs
<1>4. /\ r.phase = ph /\ r.step = s /\ r.outcome = None /\ None # "done"
      /\ ph \notin {"upgrade"}
  BY <1>0, UtilsAssumption DEF Utils!Hooks
<1>5. Utils!RunInv(r)'
  BY <1>4 DEF Utils!RunInv
<1> QED
  BY <1>1, <1>2, <1>3, <1>5, RunChanges

\* A phase that ends with a SetupError, and one that is none of init and upgrade.
LEMMA EndsKeeps ==
  ASSUME Utils!UtilsInv, NEW n \in Node, NEW o \in {"done", "error"}, utRun[n].step # "ended",
         utRun' = [utRun EXCEPT ![n].step = "ended", ![n].outcome = o],
         o = "error" \/ utRun[n].phase \notin {"init", "upgrade"},
         gconf' = gconf, topics' = topics
  PROVE  Utils!UtilsInv'
<1>0. PICK r : r = [utRun[n] EXCEPT !.step = "ended", !.outcome = o]
  OBVIOUS
<1>1. utRun[n] \in Utils!Runs
  BY UnderWay
<1>2. r \in Utils!Runs
  BY <1>0, <1>1, RunFields, Zenon
<1>3. r.step = "ended" /\ r.outcome = o /\ r.phase = utRun[n].phase
  BY <1>0, <1>1 DEF Utils!Runs
<1>4. utRun' = [utRun EXCEPT ![n] = r]
  BY <1>0 DEF Utils!UtilsInv
<1>5. Utils!RunInv(r)'
  BY <1>3 DEF Utils!RunInv
<1>6. gconf' \in [Node -> Utils!Confs] /\ topics' \in [Broker -> SUBSET Type]
  BY DEF Utils!UtilsInv
<1> QED
  BY <1>2, <1>4, <1>5, <1>6, RunChanges

\* The results of register_message_type(): if init takes the first that is no
\* success for one, then IEM is there, and the other one, unless only IEM was found.
LEMMA CreateKeeps ==
  ASSUME Utils!UtilsInv, NEW n \in Node, Utils!Create(n)
  PROVE  Utils!UtilsInv'
<1>0. PICK q : q = utRun[n]
  OBVIOUS
<1> DEFINE b == Utils!BrokerOf(q.conf)
<1>1. /\ q.step = "create" /\ gconf' = gconf
      /\ gconf' \in [Node -> Utils!Confs] /\ topics \in [Broker -> SUBSET Type]
  BY <1>0, Zenon DEF Utils!Create, Utils!UtilsInv
<1>2. q \in Utils!Runs
  BY <1>0, <1>1, UnderWay
<1>3. CASE b = None
  <2>1. topics' = topics /\ utRun' = [utRun EXCEPT ![n].step = "ended", ![n].outcome = "error"]
    BY <1>0, <1>3 DEF Utils!Create, Utils!Ends
  <2> QED
    BY <1>0, <1>1, <2>1, EndsKeeps
<1>4. CASE b # None
  <2>1. q.conf \in Utils!Confs
    BY <1>2 DEF Utils!Runs
  <2>2. b \in Broker
    BY <1>4, <2>1 DEF Utils!Confs, Utils!BrokerOf
  <2> DEFINE Result(failed, t) == CASE t \in topics[b] -> "exists"
                                    [] t \in failed -> "failed"
                                    [] OTHER -> "made"
             First(failed) == IF Result(failed, "IEM") # "made" THEN Result(failed, "IEM")
                              ELSE Result(failed, "audit_messages")
  <2>3. PICK failed \in SUBSET (Utils!Wanted \ topics[b]) :
          /\ topics' = [topics EXCEPT ![b] = @ \cup (Utils!Wanted \ failed)]
          /\ utRun' = [utRun EXCEPT
               ![n].step = "ended", ![n].found = Utils!Wanted \cap topics[b],
               ![n].outcome = Utils!Outcome(First(failed))]
    BY <1>0, <1>4, Zenon DEF Utils!Create
  <2> DEFINE made == Utils!Wanted \cap topics[b]  o == Utils!Outcome(First(failed))
  <2>0. PICK r : r = [q EXCEPT !.step = "ended", !.found = made, !.outcome = o]
    BY Zenon
  <2>4. made \in SUBSET Type /\ o \in {"done", "error"}
    BY <1>1, <2>2 DEF Utils!Outcome
  <2>5. utRun' = [utRun EXCEPT ![n] = r]
    BY <1>0, <2>0, <2>3, Zenon DEF Utils!UtilsInv
  <2>6. o = "done" => "IEM" \notin failed /\ ("audit_messages" \notin failed \/ made = {"IEM"})
    <3>1. SUFFICES ASSUME o = "done"
                   PROVE  "IEM" \notin failed /\ ("audit_messages" \notin failed \/ made = {"IEM"})
      OBVIOUS
    <3>2. First(failed) # "failed"
      BY <3>1 DEF Utils!Outcome
    <3>3. "IEM" \notin failed
      BY <3>2
    <3>4. ASSUME "audit_messages" \in failed PROVE made = {"IEM"}
      <4>1. "audit_messages" \notin topics[b] /\ Result(failed, "audit_messages") = "failed"
        BY <3>4
      <4>2. "IEM" \in topics[b]
        BY <3>2, <4>1
      <4> QED
        BY <4>1, <4>2 DEF Utils!Wanted
    <3> QED
      BY <3>3, <3>4
  <2> HIDE DEF made, o
  <2>7. r \in Utils!Runs /\ r.step = "ended" /\ r.found = made /\ r.outcome = o /\ r.conf = q.conf
    <3>1. r \in Utils!Runs
      BY <1>2, <2>0, <2>4, RunFields, Zenon
    <3> QED
      BY <1>2, <2>0, <3>1 DEF Utils!Runs
  <2>8. /\ topics' \in [Broker -> SUBSET Type] /\ \A x \in Broker : topics[x] \subseteq topics'[x]
        /\ topics'[b] = topics[b] \cup (Utils!Wanted \ failed)
    BY <1>1, <2>2, <2>3, UtilsAssumption, Zenon
  <2>9. o = "done" => Utils!Registered(r)'
    BY <2>2, <2>6, <2>7, <2>8 DEF Utils!Registered, Utils!BrokerOf, Utils!Wanted
  <2>10. Utils!RunInv(r)'
    BY <2>7, <2>9 DEF Utils!RunInv
  <2> QED
    BY <1>1, <2>5, <2>7, <2>8, <2>10, RunChanges
<1> QED
  BY <1>3, <1>4

\* A step of a run of any other phase, which takes no type away.
LEMMA OtherPhase ==
  ASSUME Utils!UtilsInv, NEW n \in Node, NEW r \in Utils!Runs, r.phase \notin {"init", "upgrade"},
         utRun' = [utRun EXCEPT ![n] = r], gconf' = gconf, topics' = topics
  PROVE  Utils!UtilsInv'
<1>1. gconf' \in [Node -> Utils!Confs] /\ topics' \in [Broker -> SUBSET Type]
  BY DEF Utils!UtilsInv
<1>2. Utils!RunInv(r)'
  BY DEF Utils!RunInv
<1> QED
  BY <1>1, <1>2, RunChanges

\* The types that reset and cleanup are to go through.
LEMMA ListKeeps ==
  ASSUME Utils!UtilsInv, NEW n \in Node, Utils!ListTypes(n)
  PROVE  Utils!UtilsInv'
<1>0. PICK q : q = utRun[n]
  OBVIOUS
<1>1. q.step = "list" /\ gconf' = gconf /\ topics' = topics
  BY <1>0 DEF Utils!ListTypes
<1>2. q \in Utils!Runs /\ Utils!RunInv(q)
  BY <1>0, <1>1, UnderWay
<1>3. q.phase \notin {"init", "upgrade"}
  BY <1>1, <1>2 DEF Utils!RunInv
<1>4. CASE \E o \in {"done", "error"} : utRun' = [utRun EXCEPT ![n].step = "ended", ![n].outcome = o]
  BY <1>0, <1>1, <1>3, <1>4, EndsKeeps
<1>5. CASE ~\E o \in {"done", "error"} : utRun' = [utRun EXCEPT ![n].step = "ended", ![n].outcome = o]
  <2> DEFINE b == Utils!BrokerOf(q.conf)
  <2>1. PICK s \in {"delete", "deregister"} :
          b # None /\ utRun' = [utRun EXCEPT ![n].step = s, ![n].list = topics[b]]
    <3>1. b # None
      BY <1>0, <1>5 DEF Utils!ListTypes, Utils!Ends
    <3>2. topics[b] # {}
      BY <1>0, <1>5, <3>1 DEF Utils!ListTypes, Utils!Ends
    <3>3. utRun' = [utRun EXCEPT ![n].step = IF q.phase = "reset" THEN "delete" ELSE "deregister",
                                 ![n].list = topics[b]]
      BY <1>0, <3>1, <3>2 DEF Utils!ListTypes
    <3>4. CASE q.phase = "reset"
      BY <3>1, <3>3, <3>4
    <3>5. CASE q.phase # "reset"
      BY <3>1, <3>3, <3>5
    <3> QED
      BY <3>4, <3>5
  <2>2. topics[b] \in SUBSET Type
    BY <1>2, <2>1 DEF Utils!UtilsInv, Utils!Runs, Utils!Confs, Utils!BrokerOf
  <2>3. PICK r : r = [q EXCEPT !.step = s, !.list = topics[b]]
    OBVIOUS
  <2>4. r \in Utils!Runs
    BY <1>2, <2>2, <2>3, RunFields, Zenon
  <2>5. r.phase = q.phase
    BY <1>2, <2>3 DEF Utils!Runs
  <2>6. utRun' = [utRun EXCEPT ![n] = r]
    BY <1>0, <2>1, <2>3 DEF Utils!UtilsInv
  <2> QED
    BY <1>1, <1>3, <2>4, <2>5, <2>6, OtherPhase
<1> QED
  BY <1>4, <1>5

\* The messages of one type.
LEMMA DeleteKeeps ==
  ASSUME Utils!UtilsInv, NEW n \in Node, NEW t \in Type, Utils!DeleteMessages(n, t)
  PROVE  Utils!UtilsInv'
<1>0. PICK q : q = utRun[n]
  OBVIOUS
<1>1. q.phase = "reset" /\ q.step = "delete" /\ gconf' = gconf /\ topics' = topics
  BY <1>0, Zenon DEF Utils!DeleteMessages, Utils!At
<1>2. q \in Utils!Runs
  BY <1>0, <1>1, UnderWay
<1>3. CASE utRun' = [utRun EXCEPT ![n].step = "ended", ![n].outcome = "error"]
  BY <1>0, <1>1, <1>3, EndsKeeps
<1>4. CASE utRun' # [utRun EXCEPT ![n].step = "ended", ![n].outcome = "error"]
  <2> DEFINE only == q.list = {t}
             l == q.list \ {t}
             s == IF only THEN "ended" ELSE q.step
             o == IF only THEN "done" ELSE q.outcome
  <2>1. l \in SUBSET Type /\ s \in {"ended", "delete"} /\ o \in {None, "done", "error"}
    BY <1>1, <1>2 DEF Utils!Runs
  <2>2. utRun' = [utRun EXCEPT ![n].list = @ \ {t},
                               ![n].step = IF utRun[n].list = {t} THEN "ended" ELSE @,
                               ![n].outcome = IF utRun[n].list = {t} THEN "done" ELSE @]
    BY <1>4, Zenon DEF Utils!DeleteMessages, Utils!Ends
  <2>3. PICK r : r = [q EXCEPT !.list = l, !.step = s, !.outcome = o]
    BY Zenon
  <2>4. utRun' = [utRun EXCEPT ![n] = r]
    BY <1>0, <1>2, <2>2, <2>3, Zenon DEF Utils!UtilsInv, Utils!Runs
  <2> HIDE DEF l, s, o
  <2>5. r \in Utils!Runs
    BY <1>2, <2>1, <2>3, RunFields, Zenon
  <2>6. r.phase = q.phase
    BY <1>2, <2>3 DEF Utils!Runs
  <2> QED
    BY <1>1, <2>4, <2>5, <2>6, OtherPhase
<1> QED
  BY <1>3, <1>4

\* All types: whoever was sure of a type of this broker is disturbed.
LEMMA DeregisterKeeps ==
  ASSUME Utils!UtilsInv, NEW n \in Node, Utils!Deregister(n)
  PROVE  Utils!UtilsInv'
<1>0. PICK b, q : q = utRun[n] /\ b = Utils!BrokerOf(q.conf)
  OBVIOUS
<1>1. q.phase = "cleanup" /\ q.step = "deregister" /\ gconf' = gconf
  BY <1>0, Zenon DEF Utils!Deregister, Utils!At
<1>2. q \in Utils!Runs
  BY <1>0, <1>1, UnderWay
<1>3. PICK o \in {"done", "error"} :
        utRun' = [m \in Node |->
          IF m = n THEN [q EXCEPT !.step = "ended", !.outcome = o]
          ELSE IF utRun[m].phase = "none" \/ Utils!BrokerOf(utRun[m].conf) # b THEN utRun[m]
          ELSE [utRun[m] EXCEPT !.disturbed = TRUE]]
  BY <1>0, Zenon DEF Utils!Deregister
<1>4. /\ topics' = [topics EXCEPT ![b] = @ \ q.list]
      /\ topics \in [Broker -> SUBSET Type] /\ gconf \in [Node -> Utils!Confs]
      /\ utRun \in [Node -> Utils!Runs \cup {Utils!Idle}]
  BY <1>0, Zenon DEF Utils!Deregister, Utils!UtilsInv
<1>5. topics' \in [Broker -> SUBSET Type] /\ \A x \in Broker : x # b => topics'[x] = topics[x]
  BY <1>4
<1>6. ASSUME NEW m \in Node
      PROVE  /\ utRun'[m] \in Utils!Runs \cup {Utils!Idle}
             /\ utRun'[m] \in Utils!Runs => Utils!RunInv(utRun[m])'
  <2>1. CASE m = n
    <3>1. PICK r : r = [q EXCEPT !.step = "ended", !.outcome = o]
      OBVIOUS
    <3>2. r \in Utils!Runs
      BY <1>2, <3>1, RunFields, Zenon
    <3>3. r.phase = "cleanup" /\ utRun'[m] = r
      BY <1>1, <1>2, <1>3, <2>1, <3>1 DEF Utils!Runs
    <3> QED
      BY <3>2, <3>3 DEF Utils!RunInv
  <2>2. CASE m # n /\ utRun'[m] = utRun[m] /\ utRun[m] = Utils!Idle
    <3>1. utRun[m] \notin Utils!Runs
      BY <2>2 DEF Utils!Idle, Utils!Runs, Utils!Hooks
    <3> QED
      BY <2>2, <3>1
  <2>3. CASE m # n /\ utRun[m] # Utils!Idle
    <3>1. PICK r : r = utRun[m] /\ r \in Utils!Runs /\ Utils!RunInv(r)
      BY <1>4, <2>3 DEF Utils!UtilsInv
    <3>2. r.phase # "none"
      BY <3>1 DEF Utils!Runs, Utils!Hooks
    <3>3. CASE Utils!BrokerOf(r.conf) # b
      <4>1. utRun'[m] = r
        BY <1>3, <2>3, <3>1, <3>3
      <4>2. Utils!Registered(r) => Utils!Registered(r)'
        BY <1>5, <3>3 DEF Utils!Registered, Utils!BrokerOf
      <4>3. Utils!RunInv(r)'
        BY <3>1, <4>2 DEF Utils!RunInv
      <4> QED
        BY <3>1, <4>1, <4>3 DEF Utils!RunInv, Utils!Registered
    <3>4. CASE Utils!BrokerOf(r.conf) = b
      <4>1. PICK p : p = [r EXCEPT !.disturbed = TRUE]
        OBVIOUS
      <4>2. utRun'[m] = p
        BY <1>3, <2>3, <3>1, <3>2, <3>4, <4>1
      <4>3. p \in Utils!Runs
        BY <3>1, <4>1, RunFields, Zenon
      <4>4. p.disturbed /\ p.phase = r.phase /\ p.step = r.step /\ p.outcome = r.outcome
        BY <3>1, <4>1 DEF Utils!Runs
      <4> QED
        BY <3>1, <4>2, <4>3, <4>4 DEF Utils!RunInv
    <3> QED
      BY <3>3, <3>4
  <2> QED
    BY <1>3, <1>4, <2>1, <2>2, <2>3 DEF Utils!Idle
<1>7. utRun' \in [Node -> Utils!Runs \cup {Utils!Idle}]
  BY <1>3, <1>6
<1> QED
  BY <1>1, <1>4, <1>5, <1>6, <1>7 DEF Utils!UtilsInv

\* What an upgrade makes of a configuration is a configuration.
LEMMA AppliedConf ==
  ASSUME NEW c \in Utils!Confs, NEW delta \in ChangeSets
  PROVE  Utils!Applied(c, delta) \in Utils!Confs
<1> DEFINE b == IF delta.backend = None THEN c.backend ELSE delta.backend
           given == Utils!Found(delta, IF delta.backend = None THEN "changed" ELSE "new", b)
           removed == IF delta.backend = None THEN {} ELSE Utils!Found(delta, "deleted", b)
           f == [x \in Utils!Backend |->
                  IF \E e \in removed : e.backend = x THEN None
                  ELSE IF \E e \in given : e.backend = x
                  THEN (CHOOSE e \in given : e.backend = x).value ELSE c.endpoints[x]]
<1>1. b \in Utils!Backend
  BY UtilsAssumption DEF Utils!Confs
<1>2. \A e \in given : e.value \in Broker
  BY UtilsAssumption DEF Utils!Found
<1>3. Utils!Applied(c, delta) = [backend |-> b, endpoints |-> f]
  BY DEF Utils!Applied
<1> HIDE DEF given, removed, b
<1>4. f \in [Utils!Backend -> Broker \cup {None}]
  <2>1. ASSUME NEW x \in Utils!Backend PROVE f[x] \in Broker \cup {None}
    <3>1. c.endpoints[x] \in Broker \cup {None}
      BY DEF Utils!Confs
    <3>2. ASSUME \E e \in given : e.backend = x
          PROVE  (CHOOSE e \in given : e.backend = x).value \in Broker
      BY <1>2, <3>2
    <3> QED
      BY <3>1, <3>2
  <2> QED
    BY <2>1
<1> HIDE DEF f
<1> QED
  BY <1>1, <1>3, <1>4 DEF Utils!Confs

\* The two steps of an upgrade before it creates the types.
LEMMA UpgradeKeeps ==
  ASSUME Utils!UtilsInv, NEW n \in Node,
         (\E delta \in ChangeSets : Utils!Upgrade(n, delta)) \/ Utils!Save(n)
  PROVE  Utils!UtilsInv'
<1>1. gconf \in [Node -> Utils!Confs] /\ topics \in [Broker -> SUBSET Type]
  BY DEF Utils!UtilsInv
<1>2. None # "done"
  BY UtilsAssumption
<1>3. ASSUME NEW delta \in ChangeSets, Utils!Upgrade(n, delta) PROVE Utils!UtilsInv'
  <2>1. PICK c : c = Utils!Applied(gconf[n], delta)
    OBVIOUS
  <2>2. c \in Utils!Confs
    BY <1>1, <2>1, AppliedConf
  <2>3. PICK r : r = [phase |-> "upgrade", step |-> "save", conf |-> c, delta |-> delta,
                      list |-> {}, found |-> {}, disturbed |-> FALSE, outcome |-> None]
    OBVIOUS
  <2>4. r \in Utils!Runs
    BY <2>2, <2>3 DEF Utils!Runs
  <2>5. utRun' = [utRun EXCEPT ![n] = r] /\ gconf' = gconf /\ topics' = topics
    BY <1>3, <2>1, <2>3 DEF Utils!Upgrade
  <2>6. Utils!RunInv(r)'
    BY <1>2, <2>3 DEF Utils!RunInv
  <2> QED
    BY <1>1, <2>4, <2>5, <2>6, RunChanges
<1>4. ASSUME Utils!Save(n) PROVE Utils!UtilsInv'
  <2>1. PICK q : q = utRun[n]
    OBVIOUS
  <2>2. /\ q.phase = "upgrade" /\ q.step = "save" /\ topics' = topics
        /\ gconf' = [gconf EXCEPT ![n] = q.conf] /\ utRun' = [utRun EXCEPT ![n].step = "create"]
    BY <1>4, <2>1 DEF Utils!Save, Utils!At, Utils!Goto
  <2>3. q \in Utils!Runs /\ Utils!RunInv(q)
    BY <2>1, <2>2, UnderWay
  <2>4. q.outcome = None /\ q.conf \in Utils!Confs
    BY <2>2, <2>3 DEF Utils!RunInv, Utils!Runs
  <2>5. PICK r : r = [q EXCEPT !.step = "create"]
    OBVIOUS
  <2>6. r \in Utils!Runs
    BY <2>3, <2>5, RunFields, Zenon
  <2>7. r.outcome = None /\ r.step = "create"
    BY <2>3, <2>4, <2>5 DEF Utils!Runs
  <2>8. utRun' = [utRun EXCEPT ![n] = r]
    BY <2>1, <2>2, <2>5 DEF Utils!UtilsInv
  <2>9. Utils!RunInv(r)'
    BY <1>2, <2>7 DEF Utils!RunInv
  <2>10. gconf' \in [Node -> Utils!Confs]
    BY <1>1, <2>2, <2>4
  <2> QED
    BY <1>1, <2>2, <2>6, <2>8, <2>9, <2>10, RunChanges
<1> QED
  BY <1>3, <1>4

\* The first steps of phases, and the end of those that change nothing here.
LEMMA PlainKeeps ==
  ASSUME Utils!UtilsInv, NEW n \in Node,
         \/ Utils!PostInstall(n) \/ Utils!Config(n) \/ Utils!Test(n)
         \/ \E ph \in Utils!Hooks : Utils!Hook(n, ph)
         \/ Utils!InitPhase(n) \/ Utils!Reset(n) \/ Utils!Cleanup(n)
         \/ Utils!CopyDatabaseConf(n) \/ Utils!Work(n) \/ Utils!Fail(n)
  PROVE  Utils!UtilsInv'
<1>1. CASE \/ Utils!CopyDatabaseConf(n) \/ Utils!Work(n) \/ Utils!Fail(n)
  <2>1. utRun[n].step # "ended" /\ gconf' = gconf /\ topics' = topics
    BY <1>1 DEF Utils!CopyDatabaseConf, Utils!Work, Utils!Fail, Utils!At
  <2>2. Utils!RunInv(utRun[n])
    BY <2>1, UnderWay
  <2>3. CASE Utils!Fail(n)
    <3>1. utRun' = [utRun EXCEPT ![n].step = "ended", ![n].outcome = "error"]
      BY <2>3 DEF Utils!Fail, Utils!Ends
    <3> QED
      BY <2>1, <3>1, EndsKeeps
  <2>4. CASE Utils!CopyDatabaseConf(n) \/ Utils!Work(n)
    <3>1. /\ utRun' = [utRun EXCEPT ![n].step = "ended", ![n].outcome = "done"]
          /\ utRun[n].step \in {"import", "work"}
      BY <2>4 DEF Utils!CopyDatabaseConf, Utils!Work, Utils!Ends, Utils!At
    <3>2. utRun[n].phase \notin {"init", "upgrade"}
      BY <2>2, <3>1 DEF Utils!RunInv
    <3> QED
      BY <2>1, <3>1, <3>2, EndsKeeps
  <2> QED
    BY <1>1, <2>3, <2>4
<1>2. CASE \E ph \in Utils!Hooks : Utils!Hook(n, ph)
  <2>1. PICK ph \in Utils!Hooks : Utils!Hook(n, ph)
    BY <1>2
  <2>2. ph # "init"
    BY DEF Utils!Hooks
  <2> QED
    BY <2>1, <2>2, EnterKeeps DEF Utils!Hook
<1>3. CASE Utils!PostInstall(n)
  BY <1>3, EnterKeeps DEF Utils!PostInstall
<1>4. CASE Utils!Config(n)
  BY <1>4, EnterKeeps DEF Utils!Config
<1>5. CASE Utils!Test(n)
  BY <1>5, EnterKeeps DEF Utils!Test
<1>6. CASE Utils!InitPhase(n)
  BY <1>6, EnterKeeps DEF Utils!InitPhase
<1>7. CASE Utils!Reset(n)
  BY <1>7, EnterKeeps DEF Utils!Reset
<1>8. CASE Utils!Cleanup(n)
  BY <1>8, EnterKeeps DEF Utils!Cleanup
<1> QED
  BY <1>1, <1>2, <1>3, <1>4, <1>5, <1>6, <1>7, <1>8

\* A step of utils_setup keeps the invariant.
LEMMA UtilsStep ==
  ASSUME Utils!UtilsInv, Utils!Next
  PROVE  Utils!UtilsInv'
<1>1. ASSUME NEW b \in Broker, NEW t \in Type, Utils!Send(b, t) PROVE Utils!UtilsInv'
  <2>1. gconf' = gconf /\ topics' = topics /\ utRun' = utRun
    BY <1>1 DEF Utils!Send
  <2> QED
    BY <2>1 DEF Utils!UtilsInv, Utils!RunInv, Utils!Registered, Utils!BrokerOf
<1>2. CASE \E b \in Broker, t \in Type : Utils!Send(b, t)
  BY <1>1, <1>2
<1>3. CASE ~\E b \in Broker, t \in Type : Utils!Send(b, t)
  <2>1. PICK n \in Node :
          \/ Utils!PostInstall(n) \/ Utils!CopyDatabaseConf(n) \/ Utils!Config(n)
          \/ Utils!Test(n) \/ Utils!Work(n)
          \/ \E ph \in Utils!Hooks : Utils!Hook(n, ph)
          \/ Utils!InitPhase(n) \/ Utils!Create(n)
          \/ Utils!Reset(n) \/ Utils!Cleanup(n) \/ Utils!ListTypes(n) \/ Utils!Deregister(n)
          \/ \E t \in Type : Utils!DeleteMessages(n, t)
          \/ \E delta \in ChangeSets : Utils!Upgrade(n, delta)
          \/ Utils!Save(n) \/ Utils!Fail(n)
    BY <1>3 DEF Utils!Next
  <2>2. ASSUME NEW t \in Type, Utils!DeleteMessages(n, t) PROVE Utils!UtilsInv'
    BY <2>2, DeleteKeeps
  <2> QED
    BY <2>1, <2>2, PlainKeeps, CreateKeeps, ListKeeps, DeregisterKeeps, UpgradeKeeps
<1> QED
  BY <1>2, <1>3

(* After an init or an upgrade that is done, and until a cleanup, its      *)
(* broker has the type IEM, whatever the other nodes run and requests      *)
(* fail; audit_messages may be missing only if the request had found IEM   *)
(* and no audit_messages (utils.py, lines 96-129).                         *)
THEOREM UtilsCorrect == Spec => []TypesRegistered
<1> DEFINE Inv == part = "utils" => Utils!UtilsInv
<1>1. ASSUME Init PROVE Inv
  <2>1. Utils!Init
    BY <1>1 DEF Init
  <2>2. /\ gconf = [n \in Node |-> Deployed] /\ topics = [b \in Broker |-> {}]
        /\ utRun = [n \in Node |-> Utils!Idle]
    BY <2>1 DEF Utils!Init
  <2>3. Utils!Idle \notin Utils!Runs
    BY DEF Utils!Idle, Utils!Runs, Utils!Hooks
  <2>4. /\ gconf \in [Node -> Utils!Confs] /\ topics \in [Broker -> SUBSET Type]
        /\ utRun \in [Node -> Utils!Runs \cup {Utils!Idle}]
        /\ \A n \in Node : utRun[n] \notin Utils!Runs
    BY <2>2, <2>3, UtilsAssumption
  <2> QED
    BY <2>4 DEF Utils!UtilsInv
<1>2. ASSUME Inv, [Next]_vars PROVE Inv'
  <2>1. CASE part = "utils" /\ Utils!Next /\ part' = part
    BY <1>2, <2>1, UtilsStep
  <2>2. CASE part' = part /\ UNCHANGED <<gconf, topics, utRun>>
    BY <1>2, <2>2 DEF Utils!UtilsInv, Utils!RunInv, Utils!Registered, Utils!BrokerOf
  <2>3. CASE part # "utils" /\ part' = part
    BY <2>3
  <2> QED
    BY <1>2, <2>1, <2>2, <2>3 DEF Next, vars, utilsVars
<1>3. Inv => TypesRegistered
  <2>1. ASSUME Utils!UtilsInv, NEW n \in Node, utRun[n].phase \in {"init", "upgrade"},
               utRun[n].outcome = "done", ~utRun[n].disturbed
        PROVE  LET there == topics[Utils!BrokerOf(utRun[n].conf)] IN
               "IEM" \in there /\ ("audit_messages" \in there \/ utRun[n].found = {"IEM"})
    <3>1. utRun[n] \in Utils!Runs
      BY <2>1 DEF Utils!UtilsInv, Utils!Idle
    <3>2. Utils!RunInv(utRun[n])
      BY <2>1, <3>1 DEF Utils!UtilsInv
    <3> QED
      BY <2>1, <3>2 DEF Utils!RunInv, Utils!Registered
  <2> QED
    BY <2>1 DEF TypesRegistered, Utils!TypesRegistered
<1> QED
  BY <1>1, <1>2, <1>3, PTL DEF Spec

-----------------------------------------------------------------------------
(* The REST server.                                                        *)

\* The numbers of a range.
LEMMA RangeSize ==
  ASSUME NEW a \in Nat, NEW k \in Nat
  PROVE  Rest!Cardinality((a + 1)..(a + k)) = k
<1>1. Cardinality((a + 1)..(a + k)) = k
  <2>1. Cardinality((a + 1)..(a + k)) = IF a + 1 > a + k THEN 0 ELSE (a + k) - (a + 1) + 1
    BY FS_Interval
  <2> QED
    BY <2>1
<1> QED
  BY <1>1 DEF Rest!Cardinality, Cardinality

\* A log that grows by entries keeps what it has.
LEMMA LogGrows ==
  ASSUME NEW s, Len(s) \in Nat, s = [i \in 1..Len(s) |-> s[i]],
         NEW e, Len(e) \in Nat, e = [i \in 1..Len(e) |-> e[i]]
  PROVE  /\ Len(s \o e) = Len(s) + Len(e)
         /\ s \o e = [i \in 1..(Len(s) + Len(e)) |-> (s \o e)[i]]
         /\ \A i \in 1..Len(s) : (s \o e)[i] = s[i]
         /\ \A i \in 1..Len(e) : (s \o e)[Len(s) + i] = e[i]
<1> DEFINE S == {s[i] : i \in 1..Len(s)} \cup {e[i] : i \in 1..Len(e)}
<1>1. s \in Seq(S) /\ e \in Seq(S)
  <2>1. s \in [1..Len(s) -> S] /\ e \in [1..Len(e) -> S]
    OBVIOUS
  <2> QED
    BY <2>1
<1> HIDE DEF S
<1>2. s \o e \in Seq(S) /\ Len(s \o e) = Len(s) + Len(e)
  BY <1>1
<1>3. s \o e = [i \in 1..(Len(s) + Len(e)) |-> (s \o e)[i]]
  <2>1. PICK c, n : c = s \o e /\ n = Len(s) + Len(e)
    OBVIOUS
  <2>2. c \in Seq(S) /\ Len(c) = n
    BY <1>2, <2>1
  <2>3. c = [i \in 1..n |-> c[i]]
    BY <2>2
  <2> QED
    BY <2>1, <2>3
<1>4. \A i \in 1..Len(s) : (s \o e)[i] = s[i]
  BY <1>1
<1>5. \A i \in 1..Len(e) : (s \o e)[Len(s) + i] = e[i]
  BY <1>1
<1> QED
  BY <1>2, <1>3, <1>4, <1>5

\* A request is answered, and nothing of it has gone anywhere.
LEMMA NothingSent ==
  ASSUME Rest!RestInv, NEW r \in DOMAIN request, r \in body \/ answer[r] = None,
         NEW s, s # 200 \/ request[r].op \notin {"iem", "send", "audit"},
         answer' = [answer EXCEPT ![r] = s], body' \subseteq body,
         log' = log, posted' = posted, request' = request
  PROVE  Rest!RestInv'
<1>1. /\ answer' = [q \in DOMAIN request |-> answer'[q]] /\ answer'[r] = s
      /\ \A q \in DOMAIN request : q # r => answer'[q] = answer[q]
  BY DEF Rest!RestInv, Rest!RequestIds
<1>2. \A q \in DOMAIN request : Rest!InLog(q)' = Rest!InLog(q)
  BY DEF Rest!InLog
<1>3. ASSUME NEW q \in DOMAIN request, q # r
      PROVE  /\ Rest!AnswerTrue(q)'
             /\ q \in body' \/ answer'[q] = None => Rest!InLog(q)' = {} /\ q \notin posted'
  <2>1. /\ Rest!AnswerTrue(q)
        /\ q \in body \/ answer[q] = None => Rest!InLog(q) = {} /\ q \notin posted
    BY DEF Rest!RestInv, Rest!RequestIds
  <2> QED
    BY <1>1, <1>2, <1>3, <2>1 DEF Rest!AnswerTrue
<1>4. Rest!InLog(r)' = {} /\ r \notin posted'
  BY <1>2 DEF Rest!RestInv, Rest!RequestIds
<1>5. Rest!AnswerTrue(r)'
  BY <1>1, <1>4 DEF Rest!AnswerTrue
<1> QED
  BY <1>1, <1>3, <1>4, <1>5 DEF Rest!RestInv, Rest!RequestIds

\* The webhook has accepted the messages of a request.
LEMMA WebhookTakes ==
  ASSUME Rest!RestInv, NEW r \in DOMAIN request, r \in body,
         answer' = [answer EXCEPT ![r] = 200], body' = body \ {r},
         log' = log, posted' = posted \cup {r}, request' = request
  PROVE  Rest!RestInv'
<1>1. /\ answer' = [q \in DOMAIN request |-> answer'[q]] /\ answer'[r] = 200
      /\ \A q \in DOMAIN request : q # r => answer'[q] = answer[q]
  BY DEF Rest!RestInv, Rest!RequestIds
<1>2. \A q \in DOMAIN request : Rest!InLog(q)' = Rest!InLog(q)
  BY DEF Rest!InLog
<1>3. ASSUME NEW q \in DOMAIN request, q # r
      PROVE  /\ Rest!AnswerTrue(q)'
             /\ q \in body' \/ answer'[q] = None => Rest!InLog(q)' = {} /\ q \notin posted'
  <2>1. /\ Rest!AnswerTrue(q)
        /\ q \in body \/ answer[q] = None => Rest!InLog(q) = {} /\ q \notin posted
    BY DEF Rest!RestInv, Rest!RequestIds
  <2> QED
    BY <1>1, <1>2, <1>3, <2>1 DEF Rest!AnswerTrue
<1>4. Rest!InLog(r)' = {} /\ r \in posted' /\ r \notin body'
  BY <1>2 DEF Rest!RestInv, Rest!RequestIds
<1>5. Rest!AnswerTrue(r)' /\ answer'[r] # None
  BY <1>1, <1>4, RestAssumption DEF Rest!AnswerTrue, Rest!EINVAL
<1> QED
  BY <1>1, <1>3, <1>4, <1>5 DEF Rest!RestInv, Rest!RequestIds

\* The messages of a request go to the bus, all of them or those before a failure.
LEMMA BusTakes ==
  ASSUME Rest!RestInv, NEW r \in DOMAIN request, r \in body,
         NEW t, NEW c, NEW error \in {500, 110}, Rest!Deliver(r, t, c, error),
         request[r].op \in {"iem", "send", "audit"},
         request[r].op = "iem" =>
           c.component = request[r].component /\ c.source = request[r].source,
         body' = body \ {r}, posted' = posted, request' = request
  PROVE  Rest!RestInv'
<1>1. PICK k \in 0..request[r].n, failed \in BOOLEAN :
        /\ failed \/ k = request[r].n
        /\ log' = log \o Rest!Entries(r, t, k, c)
        /\ answer' = [answer EXCEPT ![r] = IF failed THEN error ELSE 200]
  BY DEF Rest!Deliver, Rest!Answers
<1>2. request[r].n \in Nat /\ k \in Nat
  BY RestAssumption DEF Rest!RestInv
<1>3. PICK e : e = Rest!Entries(r, t, k, c)
  OBVIOUS
<1>4. /\ Len(e) = k /\ e = [i \in 1..k |-> e[i]]
      /\ \A i \in 1..k : /\ e[i].by = r /\ e[i].nr = i
                         /\ e[i].component = c.component /\ e[i].source = c.source
  BY <1>2, <1>3 DEF Rest!Entries
<1>5. PICK a \in Nat : a = Len(log) /\ log = [i \in 1..a |-> log[i]]
  BY DEF Rest!RestInv
<1>6. /\ Len(log') = a + k /\ log' = [i \in 1..(a + k) |-> log'[i]]
      /\ \A i \in 1..a : log'[i] = log[i]
      /\ \A i \in 1..k : log'[a + i] = e[i]
  BY <1>1, <1>2, <1>3, <1>4, <1>5, LogGrows
<1>7. Rest!InLog(r) = {} /\ r \notin posted
  BY DEF Rest!RestInv, Rest!RequestIds
<1>8. ASSUME NEW i \in 1..(a + k)
      PROVE  \/ i \in 1..a
             \/ /\ i \in (a + 1)..(a + k) /\ log'[i].by = r /\ log'[i].nr = i - a
                /\ log'[i].component = c.component /\ log'[i].source = c.source
  <2>1. CASE i > a
    <3>1. i - a \in 1..k /\ a + (i - a) = i
      BY <1>2, <2>1
    <3>2. log'[i] = e[i - a]
      BY <1>6, <3>1
    <3> QED
      BY <1>2, <1>4, <2>1, <3>1, <3>2
  <2> QED
    BY <1>2, <2>1
<1>9. DOMAIN log = 1..a /\ DOMAIN log' = 1..(a + k) /\ 1..a \subseteq 1..(a + k)
  BY <1>2, <1>5, <1>6
<1>10. Rest!InLog(r)' = (a + 1)..(a + k)
  <2>1. ASSUME NEW i \in 1..a PROVE log'[i].by # r
    BY <1>6, <1>7, <1>9 DEF Rest!InLog
  <2>2. (a + 1)..(a + k) \subseteq 1..(a + k) /\ \A i \in (a + 1)..(a + k) : i \notin 1..a
    BY <1>2
  <2> QED
    BY <1>8, <1>9, <2>1, <2>2 DEF Rest!InLog
<1>11. ASSUME NEW q \in DOMAIN request, q # r
       PROVE  /\ Rest!InLog(q)' = Rest!InLog(q)
              /\ \A i \in Rest!InLog(q) : log'[i] = log[i]
  BY <1>6, <1>8, <1>9, <1>11 DEF Rest!InLog
<1>12. PICK s \in {500, 110, 200} :
         s = (IF failed THEN error ELSE 200) /\ (s = 200 => k = request[r].n)
  BY <1>1
<1>13. /\ answer' = [q \in DOMAIN request |-> answer'[q]] /\ answer'[r] = s
       /\ \A q \in DOMAIN request : q # r => answer'[q] = answer[q]
  <2>1. answer' = [answer EXCEPT ![r] = s]
    BY <1>1, <1>12
  <2> QED
    BY <2>1 DEF Rest!RestInv, Rest!RequestIds
<1>14. ASSUME NEW q \in DOMAIN request, q # r
       PROVE  /\ Rest!AnswerTrue(q)'
              /\ q \in body' \/ answer'[q] = None => Rest!InLog(q)' = {} /\ q \notin posted'
  <2>1. /\ Rest!AnswerTrue(q)
        /\ q \in body \/ answer[q] = None => Rest!InLog(q) = {} /\ q \notin posted
    BY DEF Rest!RestInv, Rest!RequestIds
  <2>2. /\ Rest!InLog(q)' = Rest!InLog(q) /\ answer'[q] = answer[q]
        /\ \A i \in Rest!InLog(q) : log'[i] = log[i]
    BY <1>11, <1>13, <1>14
  <2> QED
    BY <2>1, <2>2 DEF Rest!AnswerTrue
<1>15. Rest!AnswerTrue(r)'
  <2>1. answer'[r] = 200 => Rest!Cardinality(Rest!InLog(r)') = request'[r].n
    BY <1>2, <1>10, <1>12, <1>13, RangeSize
  <2>2. \A i \in (a + 1)..(a + k) : /\ log'[i].nr = i - a /\ log'[i].component = c.component
                                    /\ log'[i].source = c.source
    <3>1. ASSUME NEW i \in (a + 1)..(a + k) PROVE i \in 1..(a + k) /\ i \notin 1..a
      BY <1>2
    <3> QED
      BY <1>8, <3>1
  <2>3. \A i, j \in (a + 1)..(a + k) : i < j => log'[i].nr < log'[j].nr
    BY <1>2, <2>2
  <2>4. answer'[r] \notin {22, 418}
    BY <1>12, <1>13
  <2> QED
    BY <1>10, <2>1, <2>2, <2>3, <2>4 DEF Rest!AnswerTrue, Rest!EINVAL
<1>16. answer'[r] # None /\ r \notin body'
  BY <1>12, <1>13, RestAssumption
<1>17. Len(log') \in Nat /\ log' = [i \in 1..Len(log') |-> log'[i]]
  BY <1>2, <1>6
<1> QED
  BY <1>13, <1>14, <1>15, <1>16, <1>17 DEF Rest!RestInv, Rest!RequestIds

\* The handler of events: EventMessage has the component and the source of the
\* request when it sends.
LEMMA IemKeeps ==
  ASSUME Rest!RestInv, Rest!ContextInv, NEW r \in DOMAIN request, Rest!IemSend(r), request' = request
  PROVE  Rest!RestInv'
<1>1. /\ r \in body /\ body' = body \ {r} /\ request[r].op = "iem" /\ posted' = posted
  BY DEF Rest!IemSend, Rest!Handles
<1>2. ASSUME NEW s, s # 200, Rest!Refused(r, s) PROVE Rest!RestInv'
  BY <1>1, <1>2, NothingSent DEF Rest!Refused, Rest!Answers
<1>3. PICK c : c = Rest!EventInit(r)
  OBVIOUS
<1>4. CASE ~Rest!InvalidInit(c) /\ \E e \in {500, 110} : Rest!Deliver(r, "IEM", c, e)
  <2>1. PICK e \in {500, 110} : Rest!Deliver(r, "IEM", c, e)
    BY <1>4
  <2>2. c.component = request[r].component /\ c.source = request[r].source
    BY <1>3 DEF Rest!EventInit, Rest!ContextInv
  <2> QED
    BY <1>1, <2>1, <2>2, BusTakes
<1>5. CASE \E s : s # 200 /\ Rest!Refused(r, s)
  BY <1>2, <1>5
<1>6. \/ ~Rest!InvalidInit(c) /\ Rest!Deliver(r, "IEM", c, 500)
      \/ \E s \in {22, 418, 500, 514} : Rest!Refused(r, s)
  BY <1>3 DEF Rest!IemSend, Rest!HttpError, Rest!EINVAL
<1> QED
  BY <1>4, <1>5, <1>6

\* The handlers of lists of messages and of the audit log.
LEMMA SendKeeps ==
  ASSUME Rest!RestInv, NEW r \in DOMAIN request, Rest!BusSend(r) \/ Rest!AuditSend(r),
         request' = request
  PROVE  Rest!RestInv'
<1>1. r \in body /\ body' = body \ {r} /\ request[r].op \in {"send", "audit"}
  BY DEF Rest!BusSend, Rest!AuditSend, Rest!Handles
<1>2. ASSUME NEW s, s # 200, Rest!Refused(r, s), posted' = posted PROVE Rest!RestInv'
  BY <1>1, <1>2, NothingSent DEF Rest!Refused, Rest!Answers
<1>3. ASSUME NEW t, NEW e \in {500, 110}, Rest!Deliver(r, t, Rest!NoContext, e), posted' = posted
      PROVE  Rest!RestInv'
  BY <1>1, <1>3, BusTakes
<1>4. CASE Rest!BusSend(r)
  <2>1. posted' = posted
    BY <1>4 DEF Rest!BusSend
  <2>2. \/ Rest!Deliver(r, request[r].type, Rest!NoContext, 110)
        \/ \E s \in {22, 418, 500, 514} : Rest!Refused(r, s)
    BY <1>4 DEF Rest!BusSend, Rest!HttpError, Rest!EINVAL, Rest!ETIMEDOUT
  <2> QED
    BY <1>2, <1>3, <2>1, <2>2
<1>5. CASE Rest!AuditSend(r)
  <2>1. ASSUME IF request[r].valid /\ "audit_messages" \in brokerTopics
               THEN Rest!Deliver(r, "audit_messages", Rest!NoContext, Rest!HttpError("MessageBusError"))
               ELSE Rest!Refused(r, Rest!HttpError("MessageBusError")),
               posted' = posted
        PROVE  Rest!RestInv'
    <3>1. \/ Rest!Deliver(r, "audit_messages", Rest!NoContext, 500) \/ Rest!Refused(r, 500)
      BY <2>1 DEF Rest!HttpError
    <3> QED
      BY <1>2, <1>3, <2>1, <3>1
  <2>2. \/ /\ \E s \in {418, 500} : Rest!Refused(r, s)
           /\ posted' = posted
        \/ /\ IF request[r].valid /\ "audit_messages" \in brokerTopics
              THEN Rest!Deliver(r, "audit_messages", Rest!NoContext, Rest!HttpError("MessageBusError"))
              ELSE Rest!Refused(r, Rest!HttpError("MessageBusError"))
           /\ posted' = posted
        \/ posted' = posted \cup {r} /\ Rest!Answers(r, 200) /\ log' = log
        \/ Rest!Answers(r, Rest!HttpError("ConnectionError")) /\ log' = log /\ posted' = posted
    <3>1. CASE ~request[r].json \/ "messages" \notin request[r].keys
      <4>1. /\ Rest!Refused(r, Rest!HttpError(IF request[r].json THEN "KeyError" ELSE "JSONDecodeError"))
            /\ posted' = posted
        BY <1>5, <3>1 DEF Rest!AuditSend
      <4>2. Rest!HttpError(IF request[r].json THEN "KeyError" ELSE "JSONDecodeError") \in {418, 500}
        BY DEF Rest!HttpError
      <4> QED
        BY <4>1, <4>2
    <3>2. CASE request[r].json /\ "messages" \in request[r].keys /\ webhook = None
      BY <1>5, <3>2 DEF Rest!AuditSend
    <3>3. CASE request[r].json /\ "messages" \in request[r].keys /\ webhook # None
      <4>1. \/ posted' = posted \cup {r} /\ Rest!Answers(r, 200) /\ UNCHANGED <<log, restFaults>>
            \/ /\ IF request[r].valid /\ "audit_messages" \in brokerTopics
                  THEN Rest!Deliver(r, "audit_messages", Rest!NoContext, Rest!HttpError("MessageBusError"))
                  ELSE Rest!Refused(r, Rest!HttpError("MessageBusError"))
               /\ UNCHANGED posted
            \/ /\ Rest!Fails(TRUE) /\ Rest!Answers(r, Rest!HttpError("ConnectionError"))
               /\ UNCHANGED <<log, posted>>
        BY <1>5, <3>3 DEF Rest!AuditSend
      <4> QED
        BY <4>1
    <3> QED
      BY <3>1, <3>2, <3>3
  <2>3. CASE posted' = posted \cup {r} /\ Rest!Answers(r, 200) /\ log' = log
    BY <1>1, <2>3, WebhookTakes DEF Rest!Answers
  <2>4. CASE Rest!Answers(r, Rest!HttpError("ConnectionError")) /\ log' = log /\ posted' = posted
    <3>1. Rest!Answers(r, 500)
      BY <2>4 DEF Rest!HttpError
    <3>2. PICK s : s = 500
      OBVIOUS
    <3>3. answer' = [answer EXCEPT ![r] = s] /\ s # 200
      BY <3>1, <3>2 DEF Rest!Answers
    <3>4. body' \subseteq body
      BY <1>1
    <3> QED
      BY <1>1, <2>4, <3>3, <3>4, NothingSent
  <2> QED
    BY <1>2, <2>1, <2>2, <2>3, <2>4
<1> QED
  BY <1>4, <1>5

\* The requests that send nothing.
LEMMA OtherKeeps ==
  ASSUME Rest!RestInv, NEW r \in DOMAIN request, request' = request,
         Rest!SendWebhookInfo(r) \/ Rest!Receive(r) \/ Rest!Events(r)
  PROVE  Rest!RestInv'
<1>1. /\ (r \in body \/ answer[r] = None) /\ body' \subseteq body
      /\ request[r].op \in {"webhook", "receive", "events"} /\ posted' = posted /\ log' = log
  BY DEF Rest!SendWebhookInfo, Rest!Receive, Rest!Events, Rest!Handles, Rest!Gets, Rest!broker
<1>2. \E s : answer' = [answer EXCEPT ![r] = s]
  <2>1. CASE Rest!SendWebhookInfo(r)
    BY <2>1 DEF Rest!SendWebhookInfo, Rest!Answers
  <2>2. ASSUME NEW id, NEW readable, NEW failure, Rest!Poll(id, r, readable, failure)
        PROVE  \E s : answer' = [answer EXCEPT ![r] = s]
    BY <2>2 DEF Rest!Poll, Rest!Answers
  <2>3. CASE Rest!Receive(r)
    BY <2>2, <2>3 DEF Rest!Receive, Rest!Answers
  <2>4. CASE Rest!Events(r)
    BY <2>2, <2>4 DEF Rest!Events, Rest!Answers
  <2> QED
    BY <2>1, <2>2, <2>3, <2>4
<1>3. PICK s : answer' = [answer EXCEPT ![r] = s]
  BY <1>2
<1> QED
  BY <1>1, <1>3, NothingSent

\* The server stops: the requests in it are not answered.
LEMMA StopKeeps ==
  ASSUME Rest!RestInv, Rest!Stop, request' = request
  PROVE  Rest!RestInv'
<1>1. /\ body' = {} /\ posted' = posted /\ log' = log
      /\ answer' = [r \in DOMAIN request |-> IF r \in body THEN 0 ELSE answer[r]]
  BY DEF Rest!Stop, Rest!broker, Rest!RequestIds, Rest!NoAnswer
<1>2. \A q \in DOMAIN request : Rest!InLog(q)' = Rest!InLog(q)
  BY <1>1 DEF Rest!InLog
<1>3. ASSUME NEW q \in DOMAIN request
      PROVE  /\ Rest!AnswerTrue(q)'
             /\ q \in body' \/ answer'[q] = None => Rest!InLog(q)' = {} /\ q \notin posted'
  <2>1. /\ Rest!AnswerTrue(q)
        /\ q \in body \/ answer[q] = None => Rest!InLog(q) = {} /\ q \notin posted
    BY DEF Rest!RestInv, Rest!RequestIds
  <2>2. CASE q \in body
    <3>1. answer'[q] = 0 /\ Rest!InLog(q)' = {} /\ q \notin posted'
      BY <1>1, <1>2, <2>1, <2>2
    <3> QED
      BY <3>1 DEF Rest!AnswerTrue
  <2>3. CASE q \notin body
    <3>1. answer'[q] = answer[q]
      BY <1>1, <2>3
    <3> QED
      BY <1>1, <1>2, <2>1, <3>1 DEF Rest!AnswerTrue
  <2> QED
    BY <2>2, <2>3
<1> QED
  BY <1>1, <1>3 DEF Rest!RestInv, Rest!RequestIds

\* A step of the server keeps the invariant.
LEMMA RestStep ==
  ASSUME Rest!RestInv, Rest!ContextInv, Rest!Next
  PROVE  Rest!RestInv'
<1>1. request' = request /\ Rest!Step
  BY DEF Rest!Next
<1>2. ASSUME answer' = answer, log' = log, posted' = posted,
             \A q \in body' : q \in body \/ answer[q] = None
      PROVE  Rest!RestInv'
  <2>1. ASSUME NEW q \in DOMAIN request
        PROVE  /\ Rest!AnswerTrue(q)'
               /\ q \in body' \/ answer'[q] = None => Rest!InLog(q)' = {} /\ q \notin posted'
    <3>1. Rest!InLog(q)' = Rest!InLog(q)
      BY <1>2 DEF Rest!InLog
    <3>2. /\ Rest!AnswerTrue(q)
          /\ q \in body \/ answer[q] = None => Rest!InLog(q) = {} /\ q \notin posted
      BY DEF Rest!RestInv, Rest!RequestIds
    <3> QED
      BY <1>1, <1>2, <3>1, <3>2 DEF Rest!AnswerTrue
  <2> QED
    BY <1>1, <1>2, <2>1 DEF Rest!RestInv, Rest!RequestIds
<1>3. CASE Rest!Start \/ Rest!Stop
  BY <1>1, <1>2, <1>3, StopKeeps DEF Rest!Start, Rest!broker
<1>4. CASE \E t \in Topics : Rest!Deregister(t) \/ Rest!Register(t)
  BY <1>2, <1>4 DEF Rest!Deregister, Rest!Register
<1>5. CASE \E id \in Rest!Consumers : Rest!AutoCommit(id)
  BY <1>2, <1>5 DEF Rest!AutoCommit
<1>6. CASE \E r \in DOMAIN request : Rest!Arrive(r)
  BY <1>2, <1>6 DEF Rest!Arrive, Rest!broker
<1>7. CASE \E r \in DOMAIN request :
             \/ Rest!IemSend(r) \/ Rest!BusSend(r) \/ Rest!AuditSend(r)
             \/ Rest!SendWebhookInfo(r) \/ Rest!Receive(r) \/ Rest!Events(r)
  BY <1>1, <1>7, IemKeeps, SendKeeps, OtherKeeps
<1> QED
  BY <1>1, <1>3, <1>4, <1>5, <1>6, <1>7 DEF Rest!Step, Rest!RequestIds

\* EventMessage keeps its attributes.
LEMMA ContextStep ==
  ASSUME Rest!ContextInv, Rest!Next
  PROVE  Rest!ContextInv'
<1>1. CASE Rest!Stop
  BY <1>1 DEF Rest!Stop, Rest!NoContext, Rest!ContextInv
<1>2. ASSUME NEW r \in DOMAIN request, Rest!IemSend(r) PROVE Rest!ContextInv'
  BY <1>2 DEF Rest!IemSend, Rest!ContextInv, Rest!EventInit, Rest!server
<1>3. CASE context' = context
  BY <1>3 DEF Rest!ContextInv
<1>4. ASSUME NEW r \in DOMAIN request,
             \/ Rest!Arrive(r) \/ Rest!BusSend(r) \/ Rest!AuditSend(r)
             \/ Rest!SendWebhookInfo(r) \/ Rest!Receive(r) \/ Rest!Events(r)
      PROVE  context' = context
  BY <1>4 DEF Rest!Arrive, Rest!BusSend, Rest!AuditSend, Rest!SendWebhookInfo, Rest!Receive,
     Rest!Events, Rest!server
<1>5. ASSUME \/ Rest!Start \/ \E t \in Topics : Rest!Deregister(t) \/ Rest!Register(t)
             \/ \E id \in Rest!Consumers : Rest!AutoCommit(id)
      PROVE  context' = context
  BY <1>5 DEF Rest!Start, Rest!Deregister, Rest!Register, Rest!AutoCommit, Rest!server
<1> QED
  BY <1>1, <1>2, <1>3, <1>4, <1>5 DEF Rest!Next, Rest!Step, Rest!RequestIds

(* An answer of the REST server says what has become of the request,       *)
(* whatever else the server handled while the body was on its way: where   *)
(* its messages are after a success, that they are nowhere after a status  *)
(* that blames the request, and that an event has the request's own        *)
(* component and source (the handlers of the message server).              *)
THEOREM RestCorrect == Spec => []AnswersTrue
<1> DEFINE Inv == part = "rest" => Rest!RestInv /\ Rest!ContextInv
<1>1. ASSUME Init PROVE Inv
  <2>1. Rest!Init
    BY <1>1 DEF Init
  <2>2. /\ request \in Batches /\ answer = [r \in DOMAIN request |-> None] /\ log = <<>>
        /\ posted = {} /\ body = {} /\ context = Rest!NoContext
    BY <2>1 DEF Rest!Init, Rest!RequestIds
  <2>3. Rest!ContextInv
    BY <2>2 DEF Rest!ContextInv, Rest!NoContext
  <2>4. Len(log) = 0 /\ log = [i \in 1..Len(log) |-> log[i]]
    BY <2>2
  <2>5. ASSUME NEW r \in DOMAIN request
        PROVE  Rest!AnswerTrue(r) /\ Rest!InLog(r) = {} /\ r \notin posted
    <3>1. Rest!InLog(r) = {} /\ answer[r] = None /\ r \notin posted
      BY <2>2 DEF Rest!InLog
    <3> QED
      BY <3>1, RestAssumption DEF Rest!AnswerTrue
  <2>6. answer = [r \in DOMAIN request |-> answer[r]]
    BY <2>2
  <2> QED
    BY <2>2, <2>3, <2>4, <2>5, <2>6 DEF Rest!RestInv, Rest!RequestIds
<1>2. ASSUME Inv, [Next]_vars PROVE Inv'
  <2>1. CASE part = "rest" /\ Rest!Next /\ part' = part
    BY <1>2, <2>1, RestStep, ContextStep
  <2>2. CASE part' = part /\ UNCHANGED <<request, answer, log, body, posted, context>>
    <3>1. Rest!ContextInv => Rest!ContextInv'
      BY <2>2 DEF Rest!ContextInv
    <3>2. \A r \in DOMAIN request : Rest!InLog(r)' = Rest!InLog(r)
      BY <2>2 DEF Rest!InLog
    <3>3. ASSUME NEW r \in DOMAIN request, Rest!AnswerTrue(r) PROVE Rest!AnswerTrue(r)'
      BY <2>2, <3>2, <3>3 DEF Rest!AnswerTrue
    <3>4. Rest!RestInv => Rest!RestInv'
      BY <2>2, <3>2, <3>3 DEF Rest!RestInv, Rest!RequestIds
    <3> QED
      BY <1>2, <2>2, <3>1, <3>4
  <2>3. CASE part # "rest" /\ part' = part
    BY <2>3
  <2> QED
    BY <1>2, <2>1, <2>2, <2>3 DEF Next, vars, restVars
<1>3. Inv => AnswersTrue
  BY DEF AnswersTrue, Rest!AnswersTrue, Rest!RestInv
<1> QED
  BY <1>1, <1>2, <1>3, PTL DEF Spec

=============================================================================

-------------------------- MODULE ConfStoreProofs --------------------------
(***************************************************************************)
(* ConfStore for any processes, indexes, stores, keys and values.          *)
(***************************************************************************)
EXTENDS ConfStore, TLAPS

LEMMA PayloadType ==
  ASSUME TypeOK, NEW p \in Proc, NEW i \in Index
  PROVE  Payload(p, i) \in Config /\ UrlOf[p][i] \in Url
BY ConstantsAssumption DEF TypeOK, Payload

LEMMA OverlayType ==
  ASSUME NEW c \in Config, NEW d \in Config, NEW S
  PROVE  Overlay(c, d, S) \in Config
BY DEF Config, Overlay

\* What SetPayload assigns is well-typed, and changing a payload keeps the
\* state well-typed.
LEMMA SetPayloadType ==
  ASSUME TypeOK, NEW p \in Proc, NEW i \in Index, NEW c \in Config, SetPayload(p, i, c)
  PROVE  /\ data' \in [Proc -> [Index -> Config]]
         /\ parser' \in [Proc -> [Url -> Config]]
<1> DEFINE u == UrlOf[p][i]
<1>1. u \in Url
  BY ConstantsAssumption
<1>2. CASE Kind[u] = "ini"
  <2>1. parser' = [parser EXCEPT ![p] = [parser[p] EXCEPT ![u] = c]] /\ data' = data
    BY <1>2 DEF SetPayload
  <2>2. [parser[p] EXCEPT ![u] = c] \in [Url -> Config]
    BY <1>1 DEF TypeOK
  <2> QED
    BY <2>1, <2>2 DEF TypeOK
<1>3. CASE Kind[u] # "ini"
  <2>1. data' = [data EXCEPT ![p] = [data[p] EXCEPT ![i] = c]] /\ parser' = parser
    BY <1>3 DEF SetPayload
  <2>2. [data[p] EXCEPT ![i] = c] \in [Index -> Config]
    BY DEF TypeOK
  <2> QED
    BY <2>1, <2>2 DEF TypeOK
<1> QED
  BY <1>2, <1>3

LEMMA ChangeType ==
  ASSUME TypeOK, NEW p \in Proc, NEW i \in Index, NEW c \in Config, Change(p, i, c)
  PROVE  TypeOK'
BY SetPayloadType DEF TypeOK, Change

LEMMA TypeStep == TypeOK /\ [Next]_vars => TypeOK'
<1> SUFFICES ASSUME TypeOK, [Next]_vars PROVE TypeOK'
  OBVIOUS
<1> USE ConstantsAssumption
<1>1. ASSUME NEW p \in Proc, NEW i \in Index, NEW skip \in BOOLEAN,
             NEW fail \in BOOLEAN, Load(p, i, skip, fail)
      PROVE  TypeOK'
  <2>1. Read(p, UrlOf[p][i]) \in Config
    BY PayloadType, OverlayType DEF Read, TypeOK
  <2>2. data' \in [Proc -> [Index -> Config]] /\ parser' \in [Proc -> [Url -> Config]]
    BY <1>1, <2>1, SetPayloadType DEF Load
  <2>3. /\ loaded' = [loaded EXCEPT ![p] = @ \cup {i}]
        /\ dirty' = [dirty EXCEPT ![p] = @ \ {i}]
        /\ UNCHANGED <<disk, torn, dumped, dumping>>
    BY <1>1 DEF Load
  <2> QED
    BY <2>2, <2>3 DEF TypeOK
<1>2. ASSUME NEW p \in Proc, NEW i \in Index, NEW k \in Key,
             Delete(p, i, k) \/ \E v \in Value : Set(p, i, k, v)
      PROVE  TypeOK'
  BY <1>2, PayloadType, ChangeType DEF Delete, Set, Config
<1>3. ASSUME NEW p \in Proc, NEW i \in Index, NEW j \in Index, NEW S \in SUBSET Key,
             Copy(p, i, j, S) \/ Merge(p, i, j, S)
      PROVE  TypeOK'
  BY <1>3, PayloadType, OverlayType, ChangeType DEF Copy, Merge
<1>4. ASSUME NEW p \in Proc, NEW i \in Index, BeginSave(p, i)
      PROVE  TypeOK'
  <2>1. UrlOf[p][i] \in Url /\ Empty \in Config
    BY PayloadType DEF Config, Empty
  <2>2. CASE Kind[UrlOf[p][i]] = "dict"
    <3>1. /\ dumped' = [dumped EXCEPT ![p] = @ \cup {UrlOf[p][i]}]
          /\ dirty' = [dirty EXCEPT ![p] = @ \ {i}]
          /\ UNCHANGED <<disk, torn, dumping, loaded, data, parser>>
      BY <1>4, <2>2 DEF BeginSave
    <3> QED
      BY <2>1, <3>1 DEF TypeOK
  <2>3. CASE Kind[UrlOf[p][i]] # "dict"
    <3>1. /\ disk' = [disk EXCEPT ![UrlOf[p][i]] = Empty]
          /\ torn' = torn \cup {UrlOf[p][i]}
          /\ dumping' = [dumping EXCEPT ![p] = i]
          /\ UNCHANGED <<dumped, dirty, loaded, data, parser>>
      BY <1>4, <2>3 DEF BeginSave
    <3> QED
      BY <2>1, <3>1 DEF TypeOK
  <2> QED
    BY <2>2, <2>3
<1>5. ASSUME NEW p \in Proc, EndSave(p)
      PROVE  TypeOK'
  <2>1. dumping[p] \in Index
    BY <1>5 DEF EndSave, TypeOK
  <2> QED
    BY <1>5, <2>1, PayloadType DEF EndSave, TypeOK
<1>6. ASSUME NEW p \in Proc, Crash(p)
      PROVE  TypeOK'
  BY <1>6 DEF Crash, TypeOK, Config, Empty
<1>7. CASE UNCHANGED vars
  BY <1>7 DEF vars, TypeOK
<1> QED
  BY <1>1, <1>2, <1>3, <1>4, <1>5, <1>6, <1>7 DEF Next

\* Configurations, files and the caches' bookkeeping keep their types.
THEOREM TypeCorrect == Spec => []TypeOK
<1>1. Init => TypeOK
  BY DEF Init, TypeOK, Config, Empty
<1> QED
  BY <1>1, TypeStep, PTL DEF Spec

-----------------------------------------------------------------------------
\* When no store is loaded twice, an assignment to the payload of an index
\* leaves those of all others alone, those of INI files included.
LEMMA PrivateSet ==
  ASSUME Private, TypeOK, NEW p \in Proc, NEW i \in Index, NEW c, SetPayload(p, i, c)
  PROVE  \A q \in Proc : \A j \in Index :
           Payload(q, j)' = IF q = p /\ j = i THEN c ELSE Payload(q, j)
<1> DEFINE u == UrlOf[p][i]
<1>1. u \in Url
  BY ConstantsAssumption
<1> SUFFICES ASSUME NEW q \in Proc, NEW j \in Index
             PROVE  Payload(q, j)' = IF q = p /\ j = i THEN c ELSE Payload(q, j)
  OBVIOUS
<1>2. UrlOf[q][j] \in Url /\ (UrlOf[q][j] = u => q = p /\ j = i)
  BY ConstantsAssumption DEF Private
<1>3. CASE Kind[u] = "ini"
  <2>1. parser' = [parser EXCEPT ![p] = [parser[p] EXCEPT ![u] = c]] /\ data' = data
    BY <1>3 DEF SetPayload
  <2> QED
    BY <1>1, <1>2, <1>3, <2>1 DEF TypeOK, Payload
<1>4. CASE Kind[u] # "ini"
  <2>1. data' = [data EXCEPT ![p] = [data[p] EXCEPT ![i] = c]] /\ parser' = parser
    BY <1>4 DEF SetPayload
  <2> QED
    BY <1>1, <1>2, <1>4, <2>1 DEF TypeOK, Payload
<1> QED
  BY <1>3, <1>4

\* An index that is loaded, clean and backed by a file.
Clean(p, i) == i \in loaded[p] /\ i \notin dirty[p] /\ Kind[UrlOf[p][i]] # "dict"

\* CleanIsSaved, index by index.
DataIsSaved ==
  \A p \in Proc : \A i \in Index :
    Clean(p, i) => Agrees(Kind[UrlOf[p][i]], Payload(p, i), disk[UrlOf[p][i]])

\* What a load reads agrees with the file.
LEMMA ReadAgrees ==
  ASSUME NEW p \in Proc, NEW u \in Url
  PROVE  Agrees(Kind[u], Read(p, u), disk[u])
BY DEF Agrees, Read, Overlay, Keys

LEMMA ChangeKeeps ==
  ASSUME Private, TypeOK, DataIsSaved, DumpingIsDirty,
         NEW p \in Proc, NEW i \in Index, NEW c, dumping[p] = None, Change(p, i, c)
  PROVE  DataIsSaved' /\ DumpingIsDirty'
<1>1. \A q \in Proc : \A j \in Index :
        Payload(q, j)' = IF q = p /\ j = i THEN c ELSE Payload(q, j)
  BY PrivateSet DEF Change
<1>2. /\ dirty' = [dirty EXCEPT ![p] = @ \cup {i}]
      /\ UNCHANGED <<disk, torn, loaded, dumped, dumping>>
  BY DEF Change
<1>3. DataIsSaved'
  <2> SUFFICES ASSUME NEW q \in Proc, NEW j \in Index, Clean(q, j)'
               PROVE  Agrees(Kind[UrlOf[q][j]], Payload(q, j)', disk'[UrlOf[q][j]])
    BY DEF DataIsSaved, Agrees, Keys
  <2>1. Clean(q, j) /\ ~(q = p /\ j = i)
    BY <1>2 DEF Clean, TypeOK
  <2> QED
    BY <1>1, <1>2, <2>1 DEF DataIsSaved
<1>4. DumpingIsDirty'
  BY <1>2 DEF DumpingIsDirty, TypeOK
<1> QED
  BY <1>3, <1>4

LEMMA SavedStep ==
  ASSUME Private, TypeOK, DataIsSaved, DumpingIsDirty, [Next]_vars
  PROVE  DataIsSaved' /\ DumpingIsDirty'
<1> USE ConstantsAssumption
<1>1. ASSUME NEW p \in Proc, NEW i \in Index, NEW skip \in BOOLEAN,
             NEW fail \in BOOLEAN, Load(p, i, skip, fail)
      PROVE  DataIsSaved' /\ DumpingIsDirty'
  <2> DEFINE u == UrlOf[p][i]
  <2>1. u \in Url /\ Agrees(Kind[u], Read(p, u), disk[u])
    BY ReadAgrees
  <2>2. SetPayload(p, i, Read(p, u))
    BY <1>1 DEF Load
  <2>3. \A q \in Proc : \A j \in Index :
          Payload(q, j)' = IF q = p /\ j = i THEN Read(p, u) ELSE Payload(q, j)
    BY <2>2, PrivateSet
  <2>4. /\ loaded' = [loaded EXCEPT ![p] = @ \cup {i}]
        /\ dirty' = [dirty EXCEPT ![p] = @ \ {i}]
        /\ UNCHANGED <<disk, dumping>> /\ dumping[p] = None
    BY <1>1 DEF Load
  <2>5. DataIsSaved'
    <3> SUFFICES ASSUME NEW q \in Proc, NEW j \in Index, Clean(q, j)'
                 PROVE  Agrees(Kind[UrlOf[q][j]], Payload(q, j)', disk'[UrlOf[q][j]])
      BY DEF DataIsSaved, Agrees, Keys
    <3>1. CASE q = p /\ j = i
      BY <2>1, <2>3, <2>4, <3>1
    <3>2. CASE ~(q = p /\ j = i)
      <4>1. Clean(q, j)
        BY <2>4, <3>2 DEF Clean, TypeOK
      <4> QED
        BY <2>3, <2>4, <3>2, <4>1 DEF DataIsSaved
    <3> QED
      BY <3>1, <3>2
  <2>6. DumpingIsDirty'
    BY <2>4 DEF DumpingIsDirty, TypeOK
  <2> QED
    BY <2>5, <2>6
<1>2. ASSUME NEW p \in Proc, NEW i \in Index, NEW k \in Key,
             Delete(p, i, k) \/ \E v \in Value : Set(p, i, k, v)
      PROVE  DataIsSaved' /\ DumpingIsDirty'
  BY <1>2, ChangeKeeps DEF Delete, Set
<1>3. ASSUME NEW p \in Proc, NEW i \in Index, NEW j \in Index, NEW S \in SUBSET Key,
             Copy(p, i, j, S) \/ Merge(p, i, j, S)
      PROVE  DataIsSaved' /\ DumpingIsDirty'
  BY <1>3, ChangeKeeps DEF Copy, Merge
<1>4. ASSUME NEW p \in Proc, NEW i \in Index, BeginSave(p, i)
      PROVE  DataIsSaved' /\ DumpingIsDirty'
  <2> DEFINE u == UrlOf[p][i]
  <2>1. CASE Kind[u] = "dict"
    <3>1. /\ dirty' = [dirty EXCEPT ![p] = @ \ {i}] /\ dumping[p] = None
          /\ UNCHANGED <<disk, dumping, loaded, data, parser>>
      BY <1>4, <2>1 DEF BeginSave
    <3>2. DataIsSaved'
      <4>1. ASSUME NEW q \in Proc, NEW j \in Index, Clean(q, j)' PROVE Clean(q, j)
        BY <2>1, <3>1, <4>1 DEF Clean, TypeOK
      <4> QED
        BY <3>1, <4>1 DEF DataIsSaved, Agrees, Keys, Payload
    <3>3. DumpingIsDirty'
      BY <3>1 DEF DumpingIsDirty, TypeOK
    <3> QED
      BY <3>2, <3>3
  <2>2. CASE Kind[u] # "dict"
    <3>1. /\ disk' = [disk EXCEPT ![u] = Empty]
          /\ dumping' = [dumping EXCEPT ![p] = i]
          /\ UNCHANGED <<dirty, loaded, data, parser>> /\ i \in loaded[p] /\ i \in dirty[p]
      BY <1>4, <2>2 DEF BeginSave
    <3>2. DataIsSaved'
      <4>1. ASSUME NEW q \in Proc, NEW j \in Index, Clean(q, j)'
            PROVE  Clean(q, j) /\ disk'[UrlOf[q][j]] = disk[UrlOf[q][j]]
        BY <3>1, <4>1 DEF Clean, TypeOK, Private
      <4> QED
        BY <3>1, <4>1 DEF DataIsSaved, Agrees, Keys, Payload
    <3>3. DumpingIsDirty'
      BY <3>1 DEF DumpingIsDirty, TypeOK
    <3> QED
      BY <3>2, <3>3
  <2> QED
    BY <2>1, <2>2
<1>5. ASSUME NEW p \in Proc, EndSave(p)
      PROVE  DataIsSaved' /\ DumpingIsDirty'
  <2>1. PICK i \in Index : i = dumping[p]
    BY <1>5 DEF EndSave, TypeOK
  <2>2. UrlOf[p][i] \in Url
    OBVIOUS
  <2>3. /\ disk' = [disk EXCEPT ![UrlOf[p][i]] = Payload(p, i)]
        /\ dirty' = [dirty EXCEPT ![p] = @ \ {i}]
        /\ dumping' = [dumping EXCEPT ![p] = None]
        /\ UNCHANGED <<loaded, data, parser>>
    BY <1>5, <2>1 DEF EndSave
  <2>4. DataIsSaved'
    <3> SUFFICES ASSUME NEW q \in Proc, NEW j \in Index, Clean(q, j)'
                 PROVE  Agrees(Kind[UrlOf[q][j]], Payload(q, j), disk'[UrlOf[q][j]])
      BY <2>3 DEF DataIsSaved, Agrees, Keys, Payload
    <3>1. CASE q = p /\ j = i
      BY <2>2, <2>3, <3>1 DEF Agrees, TypeOK
    <3>2. CASE ~(q = p /\ j = i)
      <4>1. Clean(q, j) /\ disk'[UrlOf[q][j]] = disk[UrlOf[q][j]]
        BY <2>3, <3>2 DEF Clean, TypeOK, Private
      <4> QED
        BY <4>1 DEF DataIsSaved
    <3> QED
      BY <3>1, <3>2
  <2>5. DumpingIsDirty'
    BY <2>3 DEF DumpingIsDirty, TypeOK
  <2> QED
    BY <2>4, <2>5
<1>6. ASSUME NEW p \in Proc, Crash(p)
      PROVE  DataIsSaved' /\ DumpingIsDirty'
  <2>1. /\ loaded' = [loaded EXCEPT ![p] = {}]
        /\ data' = [data EXCEPT ![p] = [i \in Index |-> Empty]]
        /\ parser' = [parser EXCEPT ![p] = [u \in Url |-> Empty]]
        /\ dirty' = [dirty EXCEPT ![p] = {}]
        /\ dumping' = [dumping EXCEPT ![p] = None]
        /\ UNCHANGED disk
    BY <1>6 DEF Crash
  <2>2. DataIsSaved'
    <3>1. ASSUME NEW q \in Proc, NEW j \in Index, Clean(q, j)'
          PROVE  q # p /\ Clean(q, j) /\ Payload(q, j)' = Payload(q, j)
      <4>1. q # p /\ Clean(q, j)
        BY <2>1, <3>1 DEF Clean, TypeOK
      <4> QED
        BY <2>1, <4>1 DEF Payload, TypeOK
    <3> QED
      BY <2>1, <3>1 DEF DataIsSaved, Agrees, Keys
  <2>3. DumpingIsDirty'
    BY <2>1 DEF DumpingIsDirty, TypeOK
  <2> QED
    BY <2>2, <2>3
<1>7. CASE UNCHANGED vars
  BY <1>7 DEF vars, DataIsSaved, DumpingIsDirty, Clean, Agrees, Keys, Payload
<1> QED
  BY <1>1, <1>2, <1>3, <1>4, <1>5, <1>6, <1>7 DEF Next

\* When no store is loaded twice, an index that is not dirty is what its file
\* holds, across reloads, interrupted saves and restarts: a save() that is
\* skipped loses nothing but what an INI reload kept.
THEOREM CleanCorrect ==
  ASSUME Private
  PROVE  Spec => []CleanIsSaved
<1>1. Init => DataIsSaved /\ DumpingIsDirty
  BY DEF Init, DataIsSaved, DumpingIsDirty, Clean
<1>2. TypeOK /\ DataIsSaved /\ DumpingIsDirty /\ [Next]_vars
        => DataIsSaved' /\ DumpingIsDirty'
  BY SavedStep
<1>3. TypeOK /\ DataIsSaved => CleanIsSaved
  BY DEF DataIsSaved, CleanIsSaved, Clean, TypeOK
<1> QED
  BY <1>1, <1>2, <1>3, TypeCorrect, PTL DEF Spec
=============================================================================

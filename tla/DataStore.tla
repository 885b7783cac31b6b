----------------------------- MODULE DataStore -----------------------------
(***************************************************************************)
(* A collection of the data access layer under its three drivers, used by  *)
(* several coroutines or processes at once.  No driver is atomic: Consul   *)
(* updates by reading the collection and putting whole objects back;       *)
(* Elasticsearch searches what its last refresh made visible, then changes *)
(* one document after another if its version is still the one found;       *)
(* OpenLDAP searches, then modifies or deletes one entry after another.    *)
(***************************************************************************)
EXTENDS Query

CONSTANTS
  Client,
  Id,           \* primary keys
  Drivers,      \* the drivers of the instance
  Requests,     \* Requests[driver]: the calls that clients make
  Present,      \* the collection at the start
  MaxCalls

VARIABLES
  driver,
  index,        \* the index of the collection exists (Elasticsearch)
  docs,         \* docs[i]: the object stored under key i, or None
  version,      \* version[i]: how often Elasticsearch has written document i
  seen,         \* what a search of Elasticsearch sees: docs and version
  call,         \* call[c]: the call that client c is in, or has returned from
  calls,
  marks         \* marks[c]: since c's call began, was its object in the
                \*   collection as given; did others write; what was deleted

vars == <<driver, index, docs, version, seen, call, calls, marks>>

Outcome(result) == [result |-> result, list |-> <<>>, count |-> 0, meant |-> {}]
At(step, req) == [step |-> step, req |-> req, todo |-> <<>>, out |-> Outcome("none")]
Unmarked == [landed |-> FALSE, overlapped |-> FALSE, gone |-> {}]

Init ==
  /\ driver \in Drivers
  /\ index \in (IF driver = "elastic" THEN BOOLEAN ELSE {TRUE})
  /\ docs = IF index THEN Present ELSE [i \in Id |-> None]
  /\ version = [i \in Id |-> 0]
  /\ seen = [docs |-> docs, version |-> version]
  /\ call = [c \in Client |-> At(IF index THEN "idle" ELSE "detached", None)]
  /\ calls = 0
  /\ marks = [c \in Client |-> Unmarked]

-----------------------------------------------------------------------------
(* Steps of all drivers.                                                   *)

Finish(c, out) == call' = [call EXCEPT ![c].step = "idle", ![c].out = out]
Return(c, result) == Finish(c, Outcome(result))
Goto(c, step, todo) == call' = [call EXCEPT ![c].step = step, ![c].todo = todo]

\* Client c leaves object, or None, under key i.
Write(c, i, object) ==
  /\ docs' = [docs EXCEPT ![i] = object]
  /\ version' = [version EXCEPT ![i] = IF driver = "elastic" THEN @ + 1 ELSE @]
  /\ marks' = [d \in Client |->
       [landed |-> marks[d].landed \/ (c = d /\ object # None /\ call[d].req.op = "store"
                                       /\ object = call[d].req.object),
        overlapped |-> marks[d].overlapped \/ c # d,
        gone |-> IF object = None THEN marks[d].gone \cup {i} ELSE marks[d].gone]]

IdFilter(i) == [type |-> "compare", field |-> "id", op |-> "=", value |-> i]

\* The generic delete_by_id() and update_by_id() are a delete() and an update()
\* with a filter; Consul has a delete_by_id() of its own.
DeleteById(r) == [op |-> "delete", valid |-> TRUE, filter |-> IdFilter(r.id)]
UpdateById(r) == [op |-> "update", valid |-> r.valid, filter |-> IdFilter(r.id),
                  field |-> r.field, value |-> r.value]

Generic(r) ==
  CASE r.op = "delete_by_id" /\ driver # "consul" -> DeleteById(r)
    [] r.op = "update_by_id" -> UpdateById(r)
    [] OTHER -> r

\* GenericDataBase.store() checks the object against the model and its scheme,
\* update() the fields to update; OpenLDAP's do not call them.
ValidStore(r) == r.op = "store" /\ driver # "openldap" => r.valid
ValidUpdate(r) == r.op = "update" /\ driver # "openldap" => r.valid

Begin(c, request) ==
  LET r == Generic(request) IN
  /\ call[c].step = "idle" /\ calls < MaxCalls
  /\ calls' = calls + 1
  /\ marks' = [marks EXCEPT ![c] = Unmarked]
  /\ call' = [call EXCEPT ![c] =
       IF ValidStore(r) /\ ValidUpdate(r) THEN At(r.op, r)
       ELSE [At("idle", r) EXCEPT !.out = Outcome("error")]]
  /\ UNCHANGED <<driver, index, docs, version, seen>>

\* What a search sees: in Elasticsearch, the state of the last refresh.
View == IF driver = "elastic" THEN seen.docs ELSE docs
Objects == {View[i] : i \in Id} \ {None}

Found(f) == {o \in Objects : Selects(driver, f, o)}
Meant(f) == {o \in Objects : Means(f, o)}

\* Consul looks at filter, offset and limit only if the collection is not empty.
Fails(q) ==
  /\ driver = "consul" => Objects # {}
  /\ \/ q.filter # None /\ ~Builds(driver, q.filter)
     \/ IF driver = "elastic" THEN ElasticRefused(q) ELSE Refused(q)

Get(c) ==
  LET q == call[c].req.query IN
  /\ call[c].step = "get"
  /\ \/ Fails(q) /\ Return(c, "error")
     \/ /\ ~Fails(q)
        /\ \E list \in Lists(driver, q, Found(q.filter)) :
             Finish(c, [Outcome("list") EXCEPT !.list = list, !.meant = Meant(q.filter)])
  /\ UNCHANGED <<driver, index, docs, version, seen, calls, marks>>

\* No driver limits what it counts.
Count(c) ==
  LET f == call[c].req.filter IN
  /\ call[c].step = "count"
  /\ IF Fails(Everything(f)) THEN Return(c, "error")
     ELSE Finish(c, [Outcome("count") EXCEPT !.count = Cardinality(Found(f)),
                                             !.meant = Meant(f)])
  /\ UNCHANGED <<driver, index, docs, version, seen, calls, marks>>

\* update() and delete() search and then work through what they found: objects
\* and, for Elasticsearch, their versions.
SearchFor(c, f) ==
  /\ \/ Fails(Everything(f)) /\ Return(c, "error")
     \/ /\ ~Fails(Everything(f))
        /\ \E s \in Arrangements(Found(f), IF driver = "consul" THEN ByKey ELSE None) :
             Goto(c, "apply", [k \in DOMAIN s |-> [object |-> s[k],
                                                   version |-> seen.version[s[k].id]]])
  /\ UNCHANGED <<driver, index, docs, version, seen, calls, marks>>

\* Elasticsearch refreshes its index between building the filter of a delete()
\* and the search.
RefreshFirst(c) ==
  driver = "elastic" /\ call[c].step = "delete" /\ Builds(driver, call[c].req.filter)

Search(c) ==
  /\ call[c].step \in {"update", "delete", "search"} /\ ~RefreshFirst(c)
  /\ SearchFor(c, call[c].req.filter)

Current(c) == Head(call[c].todo)
Rest(c) == Tail(call[c].todo)

\* The end of update() and delete(), which return how many they found.
Applied(c) ==
  /\ call[c].step = "apply" /\ call[c].todo = <<>>
  /\ IF driver = "elastic" /\ call[c].req.op = "update" THEN Goto(c, "refresh", <<>>)
     ELSE Return(c, IF call[c].out.result = "failing" THEN "error" ELSE "ok")
  /\ UNCHANGED <<driver, index, docs, version, seen, calls, marks>>

Applying(c, d, op) ==
  driver = d /\ call[c].step = "apply" /\ call[c].todo # <<>> /\ call[c].req.op = op

-----------------------------------------------------------------------------
(* Consul                                                                  *)

\* store(): the put answers False when it fails.
ConsulStore(c) ==
  /\ driver = "consul" /\ call[c].step = "store"
  /\ \/ Write(c, call[c].req.id, call[c].req.object) /\ Return(c, "ok")
     \/ UNCHANGED <<docs, version, marks>> /\ Return(c, "error")
  /\ UNCHANGED <<driver, index, seen, calls>>

\* update() sets the fields of each model found and stores the whole of it.
ConsulUpdate(c) ==
  LET r == call[c].req IN
  /\ Applying(c, "consul", "update")
  /\ \/ /\ Write(c, Current(c).object.id, [Current(c).object EXCEPT ![r.field] = r.value])
        /\ Goto(c, "apply", Rest(c))
     \/ UNCHANGED <<docs, version, marks>> /\ Return(c, "error")
  /\ UNCHANGED <<driver, index, seen, calls>>

Without(todo, k) == SubSeq(todo, 1, k - 1) \o SubSeq(todo, k + 1, Len(todo))

\* delete() sends all deletions at once, which are served in any order, and
\* raises at the end if one has failed.
ConsulDelete(c, k) ==
  /\ Applying(c, "consul", "delete") /\ k \in DOMAIN call[c].todo
  /\ \/ /\ Write(c, call[c].todo[k].object.id, None)
        /\ Goto(c, "apply", Without(call[c].todo, k))
     \/ /\ UNCHANGED <<docs, version, marks>>
        /\ call' = [call EXCEPT ![c].todo = Without(@, k), ![c].out = Outcome("failing")]
  /\ UNCHANGED <<driver, index, seen, calls>>

\* delete_by_id() deletes the key without a search.
ConsulDeleteById(c) ==
  /\ driver = "consul" /\ call[c].step = "delete_by_id"
  /\ \/ Write(c, call[c].req.id, None) /\ Return(c, "ok")
     \/ UNCHANGED <<docs, version, marks>> /\ Return(c, "error")
  /\ UNCHANGED <<driver, index, seen, calls>>

-----------------------------------------------------------------------------
(* Elasticsearch                                                           *)

\* attach_to_index(): looks for the index, and creates one with the mappings of
\* the model if there is none.
Attach(c) ==
  /\ call[c].step = "detached"
  /\ Goto(c, IF index THEN "idle" ELSE "create", <<>>)
  /\ UNCHANGED <<driver, index, docs, version, seen, calls, marks>>

\* The server refuses an index that another client has created meanwhile:
\* create_database() raises, and is called again with the next use.
CreateIndex(c) ==
  /\ call[c].step = "create"
  /\ Goto(c, IF index THEN "detached" ELSE "idle", <<>>)
  /\ index' = TRUE
  /\ UNCHANGED <<driver, docs, version, seen, calls, marks>>

\* store() indexes the document and then refreshes the index.
ElasticStore(c) ==
  /\ driver = "elastic" /\ call[c].step = "store"
  /\ Write(c, call[c].req.id, call[c].req.object)
  /\ Goto(c, "refresh", <<>>)
  /\ UNCHANGED <<driver, index, seen, calls>>

\* _refresh_index(), of store(), update() and delete().
ElasticRefresh(c) ==
  /\ \/ call[c].step = "refresh" /\ Return(c, "ok")
     \/ RefreshFirst(c) /\ Goto(c, "search", <<>>)
  /\ seen' = [docs |-> docs, version |-> version]
  /\ UNCHANGED <<driver, index, docs, version, calls, marks>>

\* The server's update and delete by query: a document written since the search
\* is a conflict, which ends the call and leaves the rest as it is.
ElasticWrite(c, object, current) ==
  LET i == Current(c).object.id IN
  /\ \/ /\ current
        /\ Write(c, i, object) /\ Goto(c, "apply", Rest(c))
     \/ /\ ~current
        /\ UNCHANGED <<docs, version, marks>> /\ Return(c, "error")
  /\ UNCHANGED <<driver, index, seen, calls>>

IsCurrent(c) == version[Current(c).object.id] = Current(c).version

\* A script sets the fields in the document.
Updated(c) == [Current(c).object EXCEPT ![call[c].req.field] = call[c].req.value]
ElasticUpdateAnyVersion(c) ==
  Applying(c, "elastic", "update") /\ ElasticWrite(c, Updated(c), TRUE)
ElasticUpdate(c) ==
  Applying(c, "elastic", "update") /\ ElasticWrite(c, Updated(c), IsCurrent(c))

ElasticDelete(c) ==
  Applying(c, "elastic", "delete") /\ ElasticWrite(c, None, IsCurrent(c))

-----------------------------------------------------------------------------
(* OpenLDAP                                                                *)

\* store() adds the entry; of one that exists it updates all fields by id.
LdapStoreIfNew(c) ==
  LET r == call[c].req IN
  /\ driver = "openldap" /\ call[c].step = "store"
  /\ IF docs[r.id] = None THEN Write(c, r.id, r.object) ELSE UNCHANGED <<docs, version, marks>>
  /\ Return(c, "ok")
  /\ UNCHANGED <<driver, index, seen, calls>>

LdapStore(c) ==
  LET r == call[c].req IN
  /\ driver = "openldap" /\ call[c].step = "store"
  /\ \/ /\ docs[r.id] = None
        /\ Write(c, r.id, r.object) /\ Return(c, "ok")
     \/ /\ docs[r.id] # None
        /\ UNCHANGED <<docs, version, marks>> /\ Goto(c, "update_by_id", <<>>)
  /\ UNCHANGED <<driver, index, seen, calls>>

LdapSearchById(c) ==
  /\ driver = "openldap" /\ call[c].step = "update_by_id"
  /\ SearchFor(c, IdFilter(call[c].req.id))

\* _update_ldap(): modify_s() replaces the fields whose values differ from what
\* the search returned; none may remain, and the entry may be gone.
LdapUpdate(c) ==
  LET r == call[c].req
      o == Current(c).object
      new == IF r.op = "store" THEN r.object ELSE [o EXCEPT ![r.field] = r.value]
      differs == {f \in DOMAIN o : new[f] # o[f]}
      now == docs[o.id]
  IN
  /\ \E op \in {"update", "store"} : Applying(c, "openldap", op)
  /\ \/ /\ differs = {}
        /\ marks' = [marks EXCEPT ![c].landed = TRUE]
        /\ UNCHANGED <<docs, version>> /\ Goto(c, "apply", Rest(c))
     \/ /\ differs # {} /\ now # None
        /\ Write(c, o.id, [f \in DOMAIN o |-> IF f \in differs THEN new[f] ELSE now[f]])
        /\ Goto(c, "apply", Rest(c))
     \/ /\ differs # {} /\ now = None
        /\ UNCHANGED <<docs, version, marks>> /\ Return(c, "error")
  /\ UNCHANGED <<driver, index, seen, calls>>

\* delete() deletes one entry after another; one that is gone is an error.
LdapDelete(c) ==
  LET i == Current(c).object.id IN
  /\ Applying(c, "openldap", "delete")
  /\ \/ docs[i] # None /\ Write(c, i, None) /\ Goto(c, "apply", Rest(c))
     \/ docs[i] = None /\ UNCHANGED <<docs, version, marks>> /\ Return(c, "error")
  /\ UNCHANGED <<driver, index, seen, calls>>

-----------------------------------------------------------------------------
Next ==
  \E c \in Client :
    \/ \E r \in Requests[driver] : Begin(c, r)
    \/ Get(c) \/ Count(c) \/ Search(c) \/ Applied(c)
    \/ ConsulStore(c) \/ ConsulUpdate(c) \/ ConsulDeleteById(c)
    \/ \E k \in 1..Len(call[c].todo) : ConsulDelete(c, k)
    \/ Attach(c) \/ CreateIndex(c)
    \/ ElasticStore(c) \/ ElasticRefresh(c) \/ ElasticUpdate(c) \/ ElasticDelete(c)
    \/ LdapStore(c) \/ LdapSearchById(c) \/ LdapUpdate(c) \/ LdapDelete(c)

Spec == Init /\ [][Next]_vars

-----------------------------------------------------------------------------
(* A store() that returns has put its object into the collection as it was *)
(* given, at some moment of the call.  OpenLDAP keeps this only while no   *)
(* other client writes: an entry deleted between the refused add and the   *)
(* search of update_by_id() makes store() return with nothing stored.      *)
StoreLands ==
  \A c \in Client :
    call[c].out.result = "ok" /\ call[c].req.op = "store" =>
      marks[c].landed \/ (driver = "openldap" /\ marks[c].overlapped)

(* What is deleted comes back by a store() only: an update(), which works  *)
(* on what it found earlier, brings nothing back.  With Consul it does, if *)
(* the object was deleted during the call.                                 *)
DeletedStays ==
  [][\A i \in Id : docs[i] = None /\ docs'[i] # None =>
       \E c \in Client :
         /\ call'[c] # call[c]
         /\ \/ call[c].step = "store" /\ call[c].req.id = i
            \/ driver = "consul" /\ call[c].req.op = "update" /\ i \in marks[c].gone]_vars

-----------------------------------------------------------------------------
(* The inductive invariant behind DeletedStays.  An object that an         *)
(* update() has found is under its key, or its deletion is noted (Consul), *)
(* or the version of the document tells that it was written since          *)
(* (Elasticsearch).  Calls are Sound: what is stored has its primary key,  *)
(* and updates set other fields.                                           *)

Operations == {"store", "update", "update_by_id", "delete", "delete_by_id", "get", "count"}
HasKey(o, i) == "id" \in DOMAIN o /\ o.id = i
Sound(r) == /\ r.op = "store" => HasKey(r.object, r.id)
            /\ r.op \in {"update", "update_by_id"} => r.field # "id"
Keyed(d) == \A i \in Id : d[i] # None => HasKey(d[i], i)

ShapeInv ==
  /\ driver \in Drivers /\ DOMAIN docs = Id /\ version \in [Id -> Nat]
  /\ marks = [c \in Client |-> marks[c]]
  /\ call = [c \in Client |-> [step |-> call[c].step, req |-> call[c].req,
                               todo |-> call[c].todo, out |-> call[c].out]]
SeenInv ==
  /\ Keyed(docs) /\ Keyed(seen.docs) /\ seen.version \in [Id -> Nat]
  /\ \A i \in Id : /\ seen.version[i] <= version[i]
                   /\ seen.version[i] = version[i] /\ driver = "elastic" =>
                        seen.docs[i] = docs[i]
RequestInv(c) ==
  call[c].step \notin {"idle", "detached", "create"} =>
    /\ Sound(call[c].req)
    /\ call[c].step = "store" => call[c].req.op = "store"
EntryInv(c, e) ==
  /\ HasKey(e.object, e.object.id) /\ e.object.id \in Id
  /\ driver = "consul" =>
       docs[e.object.id] # None \/ e.object.id \in marks[c].gone
  /\ driver = "elastic" =>
       /\ e.version \in Nat /\ e.version <= version[e.object.id]
       /\ e.version = version[e.object.id] => docs[e.object.id] # None
UpdateInv(c) ==
  call[c].step = "apply" /\ call[c].req.op = "update" =>
    /\ Len(call[c].todo) \in Nat
    /\ call[c].todo = [k \in 1..Len(call[c].todo) |-> call[c].todo[k]]
    /\ \A k \in DOMAIN call[c].todo : EntryInv(c, call[c].todo[k])

DataInv ==
  /\ ShapeInv
  /\ driver # "openldap" =>
       SeenInv /\ \A c \in Client : RequestInv(c) /\ UpdateInv(c)

(* A get() returns each of the objects that its filter means at most once, *)
(* in the order asked for and as many as offset and limit leave of them; a *)
(* count() counts them all.  The Consul driver evaluates trees of =, !=    *)
(* and like as they are meant, but swaps the sides of <, <=, > and >=.     *)
ReadsMeant ==
  \A c \in Client :
    LET out == call[c].out
        q == call[c].req.query
        offset == IF q.offset = None THEN 0 ELSE q.offset
        remain == Cardinality(out.meant) - offset
        limit == IF q.limit # None THEN q.limit
                 ELSE IF driver = "elastic" THEN DefaultSize ELSE remain
    IN
    /\ out.result = "count" => out.count = Cardinality(out.meant)
    /\ out.result = "list" =>
         /\ Range(out.list) \subseteq out.meant /\ IsInjective(out.list)
         /\ Len(out.list) = IF remain < 0 \/ limit < 0 THEN 0
                            ELSE IF limit < remain THEN limit ELSE remain
         /\ q.order # None => \A i, j \in DOMAIN out.list :
              i < j => ~Precedes(out.list[j], out.list[i], q.order)

=============================================================================

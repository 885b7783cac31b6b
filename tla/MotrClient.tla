----------------------------- MODULE MotrClient -----------------------------
(***************************************************************************)
(* The wrappers around the Motr client: m0common.c (one client instance    *)
(* per process, a Motr thread context per thread), m0kvs.c (indices, keys  *)
(* and iterators) and m0store.c (objects).                                 *)
(*                                                                         *)
(* Motr itself (external) keeps ordered indices and objects.  A wrapper    *)
(* launches an operation and waits for it: its effect is one step, and     *)
(* other threads run before and after it.                                  *)
(***************************************************************************)
EXTENDS Naturals, FiniteSets, Sequences

CONSTANTS
  Thread,
  Starter,    \* threads that call m0init() with the configuration
  Fid,        \* ids of indices
  Obj,        \* ids of objects
  Key,        \* keys, as natural numbers in their order
  Prefix,     \* the set of keys that have the prefix, or match the pattern
  MaxWrites,  \* bound on the writes to indices
  None

VARIABLES
  conf,       \* conf is set: some thread has called m0init(cfg)
  once,       \* motr_init_once: "new", the thread that runs it, or "done"
  inits,      \* how many times m0_client_init() was called
  initThread, \* m0init_thread
  up,         \* motr_instance: a client that is not finalized
  my,         \* my[t]: my_init_done of the thread
  adopted,    \* threads adopted with m0_thread_adopt()
  replaced,   \* the init thread has ended, and a new thread has its pthread_t
  call,       \* call[t]: the wrapper t is in and the step it is at
  index,      \* index[f]: the keys of the index, None if it does not exist
  objects,    \* the objects that exist
  iter,       \* iter[t]: the iteration of t
  writes,
  strays      \* threads that Motr did not know when a wrapper that checks called it

vars == <<conf, once, inits, initThread, up, my, adopted, replaced, call, index,
          objects, iter, writes, strays>>

client == <<conf, once, inits, initThread, up, my, adopted, replaced>>
store == <<index, objects, writes>>

MinOf(S) == CHOOSE k \in S : \A j \in S : k <= j
NoCall == [op |-> "idle", step |-> "idle"]
NoIter == [on |-> "no", fid |-> None, at |-> 0, flags |-> "none", refused |-> None,
           seen |-> <<>>, stay |-> {}]

\* Wrappers that call m0kvs_reinit() when my_init_done is not set, in the
\* thread that calls them or in m0_op_kvs() or m0_op2_kvs().
Checked == {"kvs_get", "kvs_set", "kvs_del", "kvs4_get", "kvs4_set", "list_get",
            "list_set", "idx_open", "idx_close", "create_object", "delete_object"}

\* Wrappers that go to Motr in any case.
Unchecked == {"idx_create", "idx_delete", "idx_gen_fid", "pattern", "prefix_exists",
              "iter_find", "obj_open"}

Init ==
  /\ conf = FALSE /\ once = "new" /\ inits = 0 /\ initThread = None /\ up = FALSE
  /\ my = [t \in Thread |-> FALSE] /\ adopted = {} /\ replaced = FALSE
  /\ call = [t \in Thread |-> NoCall]
  /\ index = [f \in Fid |-> None] /\ objects = {}
  /\ iter = [t \in Thread |-> NoIter]
  /\ writes = 0 /\ strays = {}

Goto(t, op, step) == call' = [call EXCEPT ![t] = [op |-> op, step |-> step]]
Return(t) == call' = [call EXCEPT ![t] = NoCall]
At(t, step) == call[t].step = step

-----------------------------------------------------------------------------
(* m0init(), from a thread that brings the configuration, or from          *)
(* m0kvs_reinit() inside a wrapper.                                        *)

M0Init(t) ==
  /\ t \in Starter /\ call[t] = NoCall /\ ~my[t]
  /\ conf' = TRUE
  /\ Goto(t, "m0init", "once")
  /\ UNCHANGED <<once, inits, initThread, up, my, adopted, replaced, store, iter, strays>>

\* pthread_once(): the first thread runs m0kvs_do_init(), the others wait.
OnceEnter(t) ==
  /\ At(t, "once") /\ once = "new"
  /\ once' = t /\ Goto(t, call[t].op, "doinit")
  /\ UNCHANGED <<conf, inits, initThread, up, my, adopted, replaced, store, iter, strays>>

OnceDone(t) ==
  /\ At(t, "once") /\ once = "done"
  /\ Goto(t, call[t].op, "adopt")
  /\ UNCHANGED <<client, store, iter, strays>>

\* m0kvs_do_init() and init_motr(): the client, its container and the id
\* generator.  A failure of any of them ends the process.
DoInit(t) ==
  /\ At(t, "doinit")
  /\ inits' = inits + 1 /\ up' = TRUE /\ initThread' = t
  /\ once' = "done"
  /\ Goto(t, call[t].op, "adopt")
  /\ UNCHANGED <<conf, my, adopted, replaced, store, iter, strays>>

\* Under m0init_lock: every thread but the init thread is adopted.
AdoptIf(t, foreign) ==
  /\ At(t, "adopt")
  /\ adopted' = IF foreign THEN adopted \cup {t} ELSE adopted
  /\ my' = [my EXCEPT ![t] = TRUE]
  /\ IF call[t].op = "m0init" THEN Return(t) ELSE Goto(t, call[t].op, "motr")
  /\ UNCHANGED <<conf, once, inits, initThread, up, replaced, store, iter, strays>>

\* Adoption skipped for a wrapper that called m0kvs_reinit() itself.
AdoptStartersOnly(t) == AdoptIf(t, t # initThread /\ call[t].op = "m0init")
Adopt(t) == AdoptIf(t, t # initThread)

\* m0fini() from a thread that has my_init_done, when no call is under way
\* (the caller's duty): nothing can be started again after it.
M0Fini(t) ==
  /\ my[t] /\ up /\ \A u \in Thread : call[u] = NoCall
  /\ up' = FALSE
  /\ UNCHANGED <<conf, once, inits, initThread, my, adopted, replaced, call, store,
                 iter, strays>>

\* A thread ends: autoshun_key_cb() takes it from Motr.  A later thread may
\* get its pthread_t, also that of the init thread.
ThreadExit(t) ==
  /\ call[t] = NoCall /\ my[t] /\ iter[t] = NoIter
  /\ my' = [my EXCEPT ![t] = FALSE]
  /\ adopted' = adopted \ {t}
  /\ replaced' = (replaced \/ t = initThread)
  /\ UNCHANGED <<conf, once, inits, initThread, up, call, store, iter, strays>>

-----------------------------------------------------------------------------
(* A wrapper: initialise the thread if the wrapper checks, then call Motr. *)

\* A wrapper that checks, in a thread that is new: m0kvs_reinit().  Which one
\* it is matters only when it gets to Motr.
Reinit(t) ==
  /\ conf /\ call[t] = NoCall /\ (up \/ once # "done") /\ ~my[t]
  /\ Goto(t, "wrapper", "once")
  /\ UNCHANGED <<client, store, iter, strays>>

\* Thread t gets to the Motr call of wrapper op.
Runs(t, op) ==
  \/ At(t, "motr") /\ op \in Checked
  \/ call[t] = NoCall /\ up /\ (my[t] \/ op \in Unchecked)

\* Motr is entered by thread t from wrapper op.
Known(t) == up /\ ((t = initThread /\ ~replaced) \/ t \in adopted)
Stray(t, op) ==
  strays' = IF Known(t) \/ op \notin Checked THEN strays ELSE strays \cup {t}

\* Keys that stay in the index while an iteration runs over it.
Deleted(f, gone) ==
  iter' = [t \in Thread |-> IF iter[t].fid = f
                            THEN [iter[t] EXCEPT !.stay = @ \ gone] ELSE iter[t]]

\* m0kvs_set(), m0kvs_del() and their variants for lists and for the global
\* index: M0_IC_PUT with M0_OIF_OVERWRITE, M0_IC_DEL.
Write(t, f, k) ==
  /\ writes < MaxWrites /\ index[f] # None
  /\ \/ \E op \in {"kvs_set", "kvs4_set", "list_set"} :
          /\ Runs(t, op) /\ Stray(t, op)
          /\ index' = [index EXCEPT ![f] = @ \cup {k}]
          /\ UNCHANGED iter
     \/ /\ Runs(t, "kvs_del") /\ Stray(t, "kvs_del") /\ k \in index[f]
        /\ index' = [index EXCEPT ![f] = @ \ {k}]
        /\ Deleted(f, {k})
  /\ writes' = writes + 1
  /\ Return(t) /\ UNCHANGED <<client, objects>>

\* The calls that read, and every call that Motr refuses (no such key, no
\* such index, -EEXIST): the return code is passed on, nothing changes, so
\* that only the first such call of a thread is a step.
Read(t, op) ==
  /\ At(t, "motr") /\ op \in Checked
  /\ Stray(t, op) /\ Return(t) /\ UNCHANGED <<client, store, iter>>

\* m0idx_create() and m0idx_delete().
Indices(t, f) ==
  /\ writes < MaxWrites
  /\ \/ /\ Runs(t, "idx_create") /\ Stray(t, "idx_create") /\ index[f] = None
        /\ index' = [index EXCEPT ![f] = {}] /\ UNCHANGED iter
     \/ /\ Runs(t, "idx_delete") /\ Stray(t, "idx_delete") /\ index[f] # None
        /\ index' = [index EXCEPT ![f] = None] /\ Deleted(f, Key)
  /\ writes' = writes + 1
  /\ Return(t) /\ UNCHANGED <<client, objects>>

\* m0store_create_object(); m0store_delete_object() opens the object first.
Objects(t, o) ==
  /\ \/ /\ Runs(t, "create_object") /\ Stray(t, "create_object") /\ o \notin objects
        /\ objects' = objects \cup {o} /\ Return(t)
     \/ /\ Runs(t, "delete_object") /\ Stray(t, "delete_object") /\ o \in objects
        /\ Goto(t, "delete_object", "delete") /\ UNCHANGED objects
     \/ /\ At(t, "delete") /\ Stray(t, "delete_object")
        /\ objects' = objects \ {o} /\ Return(t)
  /\ UNCHANGED <<client, index, writes, iter>>

-----------------------------------------------------------------------------
(* Iteration.  M0_IC_NEXT finds the first key at or after the start key,   *)
(* or after it with M0_OIF_EXCLUDE_START_KEY.                              *)

Following(f, from, exclude) ==
  IF index[f] = None THEN {}
  ELSE {k \in index[f] : IF exclude THEN k > from ELSE k >= from}

\* Key m is found.  A match is shown to the callback of m0kvs_pattern(), whose
\* refusal leaves the loop before myk and the flags are updated, and does not stop
\* the listing: the next turn searches from where this one did.
Found(i, m, takes) ==
  IF m \in Prefix /\ ~takes THEN [i EXCEPT !.refused = m]
  ELSE [i EXCEPT !.at = m, !.flags = "exclude", !.refused = None,
                 !.seen = IF m \in Prefix THEN Append(@, m) ELSE @]

\* m0kvs_key_iter_find(), which has no callback, and the first turn of
\* m0kvs_pattern(), which does not stop at keys before the first match.
First(t, f, op, takes) ==
  /\ Runs(t, op) /\ iter[t].on = "no" /\ (op = "iter_find" => takes)
  /\ LET from == IF op = "iter_find" THEN MinOf(Prefix) ELSE 0
         keys == Following(f, from, FALSE)
     IN iter' = [iter EXCEPT ![t] =
          IF keys = {} THEN NoIter
          ELSE Found([on |-> op, fid |-> f, at |-> from, flags |-> "none", refused |-> None,
                      seen |-> <<>>, stay |-> index[f] \cap Prefix], MinOf(keys), takes)]
  /\ Stray(t, op) /\ Return(t) /\ UNCHANGED <<client, store>>

\* An iteration goes on until there is no key, or one without the prefix
\* (the caller of m0kvs_key_iter_next() looks; m0kvs_pattern() does once the
\* callback has taken a match).
Over(i, keys) ==
  \/ i.on = "iter_find" /\ i.at \notin Prefix
  \/ keys = {}
  \/ MinOf(keys) \notin Prefix /\ (i.on = "iter_find" \/ i.seen # <<>>)

IterFrom(t, exclude, takes) ==
  /\ call[t] = NoCall /\ up /\ iter[t].on \in {"iter_find", "pattern"}
  /\ iter[t].on = "iter_find" => takes
  /\ LET i == iter[t]  keys == Following(i.fid, i.at, exclude) IN
     iter' = [iter EXCEPT ![t] =
       IF Over(i, keys) THEN [i EXCEPT !.on = "end"] ELSE Found(i, MinOf(keys), takes)]
  /\ UNCHANGED <<client, store, call, strays>>

\* The start key is found again and again.
IterNextInclusive(t, takes) == Len(iter[t].seen) <= Cardinality(Key) /\ IterFrom(t, FALSE, takes)
IterNext(t, takes) == IterFrom(t, iter[t].flags = "exclude", takes)

\* m0kvs_key_iter_fini().
IterFini(t) ==
  /\ call[t] = NoCall /\ iter[t].on # "no"
  /\ iter' = [iter EXCEPT ![t] = NoIter]
  /\ UNCHANGED <<client, store, call, strays>>

Next ==
  \E t \in Thread :
    \/ M0Init(t) \/ OnceEnter(t) \/ OnceDone(t) \/ DoInit(t) \/ Adopt(t) \/ M0Fini(t)
    \/ ThreadExit(t)
    \/ Reinit(t)
    \/ \E op \in Checked : Read(t, op)
    \/ \E f \in Fid : Indices(t, f) \/ \E k \in Key : Write(t, f, k)
    \/ \E f \in Fid, op \in {"iter_find", "pattern"}, takes \in BOOLEAN : First(t, f, op, takes)
    \/ \E o \in Obj : Objects(t, o)
    \/ \E takes \in BOOLEAN : IterNext(t, takes)
    \/ IterFini(t)

Spec == Init /\ [][Next]_vars

-----------------------------------------------------------------------------
(* Properties.                                                             *)

(* Once some thread has begun m0init(cfg), threads may call the checking   *)
(* wrappers in any order, while the first initialisation still runs too,   *)
(* and others may end and begin: the client is made once, and every such   *)
(* call reaches Motr from the thread that made it or from an adopted one,  *)
(* but for the one thread that has got the pthread_t of the init thread.   *)
InitialisedOnce ==
  /\ inits <= 1
  /\ \A t \in strays : replaced /\ t = initThread

(* An iteration, or a pattern listing, under writes of other threads never *)
(* shows a key after it was taken, nor one before it, and when it ends     *)
(* every key of the prefix that was there from its first step to its last  *)
(* was shown and taken.  So a callback that returns false does not end the *)
(* listing: it is shown the key again, until it takes it or the key is     *)
(* deleted.                                                                *)
IterationComplete ==
  \A t \in Thread :
    LET i == iter[t] IN
    /\ \A j \in 2..Len(i.seen) : i.seen[j - 1] < i.seen[j]
    /\ i.refused # None => \A j \in 1..Len(i.seen) : i.seen[j] < i.refused
    /\ i.on = "end" => \A k \in i.stay : \E j \in 1..Len(i.seen) : i.seen[j] = k

-----------------------------------------------------------------------------
(* Why they hold.  A thread that is done with m0init() knows Motr, and     *)
(* whoever is on the way to Motr has a client that is not finalized.  An   *)
(* iteration has shown all that stayed up to the key that it is at.        *)

ClientInv ==
  /\ once \in {"new", "done"} \cup Thread
  /\ inits = IF once = "done" THEN 1 ELSE 0
  /\ replaced => once = "done"
  /\ my \in [Thread -> BOOLEAN] /\ call = [t \in Thread |-> [op |-> call[t].op, step |-> call[t].step]]

ThreadInv(t) ==
  /\ my[t] => once = "done" /\ (t \in adopted \/ t = initThread)
  /\ call[t].step = "doinit" => once = t
  /\ call[t].step \in {"adopt", "motr", "delete"} => once = "done"
  /\ call[t].step \in {"once", "doinit", "adopt"} => call[t].op = "m0init" \/ up \/ once # "done"
  /\ call[t].step \in {"motr", "delete"} => my[t] /\ up

Shows(i, k) == \E j \in 1..Len(i.seen) : i.seen[j] = k

\* The keys before the point that the next search starts from.
Before(i, k) == k < i.at \/ (i.flags = "exclude" /\ k = i.at)

IterInv(i) ==
  /\ i.seen \in Seq(Prefix) /\ i.stay \subseteq Prefix /\ i.at \in Nat
  /\ i = [on |-> i.on, fid |-> i.fid, at |-> i.at, flags |-> i.flags, refused |-> i.refused,
          seen |-> i.seen, stay |-> i.stay]
  /\ \A j \in 1..Len(i.seen) : Before(i, i.seen[j])
  /\ \A j, k \in 1..Len(i.seen) : j < k => i.seen[j] < i.seen[k]
  /\ i.refused # None => i.refused \in Key /\ i.at <= i.refused /\ (i.flags = "exclude" => i.at < i.refused)
  /\ i.stay # {} => i.fid \in Fid /\ index[i.fid] # None /\ i.stay \subseteq index[i.fid]
  /\ i.on = "iter_find" => i.at \in Key /\ \E k \in Prefix : k <= i.at
  /\ i.on \in {"iter_find", "pattern"} =>
       i.fid \in Fid /\ \A k \in i.stay : Before(i, k) => Shows(i, k)
  /\ i.on = "end" => \A k \in i.stay : Shows(i, k)
  /\ i.on = "no" => i.stay = {}

\* A thread that Motr does not know has got the pthread_t of the init thread.
StraysInv == \A t \in strays : replaced /\ t = initThread

ServesInv == ClientInv /\ StraysInv /\ \A t \in Thread : ThreadInv(t)
IterationsInv ==
  /\ index = [f \in Fid |-> index[f]] /\ \A f \in Fid : index[f] # None => index[f] \subseteq Key
  /\ iter = [t \in Thread |-> iter[t]] /\ \A t \in Thread : IterInv(iter[t])
MotrInv == ServesInv /\ IterationsInv
=============================================================================

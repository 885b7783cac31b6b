----------------------------- MODULE PerfTrace -----------------------------
(***************************************************************************)
(* Performance tracing (perf-counters.h): every thread has a stack of the  *)
(* traced functions it is in, in thread-specific storage under one key of  *)
(* the process.  A traced function runs perfc_trace_inii() first and       *)
(* perfc_trace_finii() last; a few return without the latter.  Records go  *)
(* to the time series database while it is on.                             *)
(***************************************************************************)
EXTENDS Naturals, Sequences

CONSTANTS
  Thread,
  FnTag,      \* function tags in use
  MaxDepth,   \* MAX_PERFC_STACK_DEPTH
  MaxCalls,   \* bound on the ids given out
  None

VARIABLES
  key,        \* perfc_tls_key_check: the key of the stacks was created
  tsdb,       \* tsdb_is_on()
  idgen,      \* perfc_id_gen
  stack,      \* stack[t]: pstack up to top, or NoStack (no value for the key)
  nest,       \* nest[t]: the traced functions t is in, by id, outermost first
  lost,       \* lost[t]: a function of t returned without its finii
  added       \* the records the last step added to the database

vars == <<key, tsdb, idgen, stack, nest, lost, added>>

NoStack == None
InvalidId == 0                       \* PERFC_INVALID_ID
LastOf(s) == s[Len(s)]
ButLast(s) == SubSeq(s, 1, Len(s) - 1)

Init ==
  /\ key = FALSE /\ tsdb = FALSE /\ idgen = InvalidId
  /\ stack = [t \in Thread |-> NoStack]
  /\ nest = [t \in Thread |-> <<>>]
  /\ lost = [t \in Thread |-> FALSE]
  /\ added = {}

-----------------------------------------------------------------------------
(* The submodule of a function tag.  Both ends of a range fail the strict  *)
(* comparisons of perfc_sm_tag(): smtag is then not assigned at all.       *)

Ranges == [m \in {"A", "B", "C", "D", "E", "F"} |->
             CASE m = "A" -> <<1, 256>>     [] m = "B" -> <<257, 512>>
               [] m = "C" -> <<513, 768>>   [] m = "D" -> <<769, 1024>>
               [] m = "E" -> <<1025, 1280>> [] m = "F" -> <<1281, 1537>>]

SmTag(tag) == {m \in DOMAIN Ranges : tag > Ranges[m][1] /\ tag < Ranges[m][2]}

-----------------------------------------------------------------------------
(* perfc_tls_get_origin(), perfc_tls_get_top() and perfc_tls_get_prev().   *)

Invalid == [id |-> InvalidId, tag |-> 0]
Absent(t) == ~key \/ stack[t] = NoStack \/ stack[t] = <<>>

Origin(t) == IF Absent(t) THEN Invalid ELSE stack[t][1]
Top(t) == IF Absent(t) THEN Invalid ELSE LastOf(stack[t])

\* The newest operation passes for its own caller.
PrevOfTop(s) == LastOf(s)

\* Of the stack s just pushed on: the caller, or the origin itself.
PrevOf(s) == IF Len(s) = 1 THEN s[1] ELSE s[Len(s) - 1]

\* perfc_tls_push() has a dassert on the depth; perfc_tls_pop().
CanPush(s) == Len(s) < MaxDepth
Pushed(s, id, tag) == Append(s, [id |-> id, tag |-> tag])
Popped(s) == ButLast(s)

\* TSDB_ADD(): no record while the database is off.
Add(new) == added' = IF tsdb THEN new ELSE {}

-----------------------------------------------------------------------------
(* Process and thread set-up.                                              *)

\* tsdb_init() and tsdb_set_rt_state(); tsdb_fini() turns the state off.
SetTsdb(on) ==
  /\ tsdb # on /\ tsdb' = on
  /\ added' = {} /\ UNCHANGED <<key, idgen, stack, nest, lost>>

\* perfc_tsdb_setup(), by one thread.
TsdbSetup ==
  /\ ~key /\ key' = TRUE
  /\ added' = {} /\ UNCHANGED <<tsdb, idgen, stack, nest, lost>>

\* perfc_tls_ini(): a stack in the caller's frame, with the caller's id on it.
TlsIni(t, tag) ==
  /\ idgen < MaxCalls /\ nest[t] = <<>> /\ stack[t] = NoStack
  /\ idgen' = idgen + 1
  /\ nest' = [nest EXCEPT ![t] = <<idgen + 1>>]
  /\ stack' = [stack EXCEPT ![t] =
                 IF key THEN Pushed(<<>>, idgen + 1, tag) ELSE NoStack]
  /\ added' = {} /\ UNCHANGED <<key, tsdb, lost>>

\* perfc_tls_fini(), as the function of perfc_tls_ini() returns.
TlsFini(t) ==
  /\ Len(nest[t]) = 1
  /\ nest' = [nest EXCEPT ![t] = <<>>]
  /\ stack' = [stack EXCEPT ![t] = NoStack]
  /\ lost' = [lost EXCEPT ![t] = FALSE]
  /\ added' = {} /\ UNCHANGED <<key, tsdb, idgen>>

-----------------------------------------------------------------------------
(* A traced function.                                                      *)

\* perfc_trace_inii(): an id, a push, a record of the start and a map record
\* from the new operation to the origin and to its caller.
TraceInii(t, tag) ==
  /\ nest[t] # <<>> /\ idgen < MaxCalls
  /\ idgen' = idgen + 1
  /\ nest' = [nest EXCEPT ![t] = Append(@, idgen + 1)]
  /\ IF ~key \/ stack[t] = NoStack
     THEN added' = {} /\ UNCHANGED stack
     ELSE LET s == Pushed(stack[t], idgen + 1, tag) IN
          /\ CanPush(stack[t])
          /\ stack' = [stack EXCEPT ![t] = s]
          /\ Add({[kind |-> "init", thread |-> t, id |-> idgen + 1, sm |-> SmTag(tag)],
                  [kind |-> "map", thread |-> t, id |-> idgen + 1, sm |-> SmTag(tag),
                   origin |-> s[1].id, caller |-> PrevOf(s).id,
                   real |-> <<nest[t][1], LastOf(nest[t])>>]})
  /\ UNCHANGED <<key, tsdb, lost>>

\* perfc_trace_attr() in a traced function: a record for the top operation.
TraceAttr(t) ==
  /\ Len(nest[t]) > 1 /\ Top(t).id # InvalidId
  /\ Add({[kind |-> "attr", thread |-> t, id |-> Top(t).id, sm |-> SmTag(Top(t).tag),
           real |-> LastOf(nest[t])]})
  /\ UNCHANGED <<key, tsdb, idgen, stack, nest, lost>>

\* perfc_trace_finii(): the record of the end, for the top of the stack, and
\* a pop.  All callers pass PERFC_TLS_POP_DONT_VERIFY.
TraceFinii(t) ==
  /\ Len(nest[t]) > 1
  /\ nest' = [nest EXCEPT ![t] = ButLast(@)]
  /\ IF Top(t).id = InvalidId
     THEN added' = {} /\ UNCHANGED stack
     ELSE /\ stack' = [stack EXCEPT ![t] = Popped(@)]
          /\ Add({[kind |-> "fini", thread |-> t, id |-> Top(t).id,
                   sm |-> SmTag(Top(t).tag), real |-> LastOf(nest[t])]})
  /\ UNCHANGED <<key, tsdb, idgen, lost>>

\* A return without it: m0_ufid_get() when m0_ufid_next() fails, and
\* m0kvs_pattern() when there are no more keys.
ReturnUntraced(t) ==
  /\ Len(nest[t]) > 1
  /\ nest' = [nest EXCEPT ![t] = ButLast(@)]
  /\ lost' = [lost EXCEPT ![t] = @ \/ Top(t).id # InvalidId]
  /\ added' = {} /\ UNCHANGED <<key, tsdb, idgen, stack>>

Next ==
  \/ \E on \in BOOLEAN : SetTsdb(on)
  \/ TsdbSetup
  \/ \E t \in Thread :
       \/ \E tag \in FnTag : TlsIni(t, tag) \/ TraceInii(t, tag)
       \/ TlsFini(t) \/ TraceAttr(t) \/ TraceFinii(t) \/ ReturnUntraced(t)

Spec == Init /\ [][Next]_vars

-----------------------------------------------------------------------------
(* Properties.                                                             *)

(* The records name operations of the thread that wrote them.  While every *)
(* function has ended with its finii they are the right ones: a map record *)
(* names the operation the thread began with and the one that called the   *)
(* new one, an attribute or end record the function that wrote it.  After  *)
(* a return without finii a map record still names the operation the       *)
(* thread began with, and where a record names another operation than the  *)
(* function, that is one that began after it.                              *)
TraceNamesOperation ==
  \A r \in added :
    /\ r.sm # {}
    /\ r.kind = "init" => r.id = LastOf(nest[r.thread])
    /\ r.kind = "map" =>
         /\ r.origin = r.real[1] /\ r.caller >= r.real[2]
         /\ ~lost[r.thread] => r.caller = r.real[2]
    /\ r.kind \in {"attr", "fini"} =>
         r.id >= r.real /\ (~lost[r.thread] => r.id = r.real)

-----------------------------------------------------------------------------
(* Why it holds: the stack of a thread is its nest of functions, call for  *)
(* call, until one of them returns without its finii.  From then on there  *)
(* is more on the stack, and every function has a frame that is as far     *)
(* from the top as it is, of itself or of one that began later.            *)

Frame == [id : Nat \ {InvalidId}, tag : FnTag]

TraceType ==
  /\ key \in BOOLEAN /\ tsdb \in BOOLEAN /\ idgen \in Nat
  /\ stack = [t \in Thread |-> stack[t]]
  /\ \A t \in Thread : stack[t] # NoStack => stack[t] \in Seq(Frame)
  /\ nest \in [Thread -> Seq(Nat \ {InvalidId})] /\ lost \in [Thread -> BOOLEAN]

Follows(s, m, any, last) ==
  /\ m # <<>> /\ m[Len(m)] <= last /\ s[1].id = m[1]
  /\ \A i, j \in 1..Len(m) : i < j => m[i] < m[j]
  /\ \E extra \in Nat :
       /\ Len(s) = Len(m) + extra /\ (~any => extra = 0)
       /\ \A i \in 1..Len(m) : s[i + extra].id >= m[i] /\ (~any => s[i].id = m[i])

StackInv(t) == stack[t] # NoStack => key /\ Follows(stack[t], nest[t], lost[t], idgen)

TraceInv == TraceType /\ (\A t \in Thread : StackInv(t)) /\ TraceNamesOperation
=============================================================================

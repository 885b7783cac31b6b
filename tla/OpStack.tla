------------------------------ MODULE OpStack ------------------------------
(***************************************************************************)
(* The operation stack of operation.h: a thread begins an operation, the   *)
(* functions it calls push and pop their context, and the thread ends it.  *)
(***************************************************************************)
EXTENDS Naturals, Sequences

CONSTANTS
  Thread,
  MaxDepth,   \* MAX_OPSTACK_DEPTH
  MaxNest,    \* bound on the nesting of calls
  MaxCalls    \* bound on the call ids given out

VARIABLES
  counter,    \* op_counter of the module the calls are counted in
  op,         \* op[t]: ctxstack up to depth, as call ids; <<>> when invalid
  calls,      \* calls[t]: the calls t is in, by the ids they were given
  filled      \* filled[t]: the stack of the operation was full at some time

vars == <<counter, op, calls, filled>>

LastOf(s) == s[Len(s)]
ButLast(s) == SubSeq(s, 1, Len(s) - 1)

Init ==
  /\ counter = 0
  /\ op = [t \in Thread |-> <<>>]
  /\ calls = [t \in Thread |-> <<>>]
  /\ filled = [t \in Thread |-> FALSE]

\* OPCALL_INIT(): __sync_add_and_fetch on the counter of the module.
NextId == counter + 1

\* opstack_begin(): a stack of one call, the head.
Begin(t) ==
  /\ calls[t] = <<>> /\ counter < MaxCalls
  /\ counter' = NextId
  /\ op' = [op EXCEPT ![t] = <<NextId>>]
  /\ calls' = [calls EXCEPT ![t] = <<NextId>>]
  /\ filled' = [filled EXCEPT ![t] = MaxDepth = 1]

\* opstack_push(): nothing when the stack is full, and no id is taken then.
PushWithin(t, bound) ==
  /\ calls[t] # <<>> /\ Len(calls[t]) < MaxNest /\ counter < MaxCalls
  /\ IF Len(op[t]) < bound
     THEN /\ counter' = NextId
          /\ op' = [op EXCEPT ![t] = Append(@, NextId)]
          /\ calls' = [calls EXCEPT ![t] = Append(@, NextId)]
     ELSE /\ calls' = [calls EXCEPT ![t] = Append(@, 0)]
          /\ UNCHANGED <<counter, op>>
  /\ filled' = [filled EXCEPT ![t] = @ \/ Len(op'[t]) = MaxDepth]

PushOneLess(t) == PushWithin(t, MaxDepth - 1)
Push(t) == PushWithin(t, MaxDepth)

\* opstack_pop(): the depth goes down by one and the slot above the top is
\* cleared.  Of a full stack that slot is the depth itself: it becomes 0, or
\* keeps the value just stored, as the compiler orders the two writes.
Pop(t) ==
  /\ Len(calls[t]) > 1
  /\ \E depth \in (IF Len(op[t]) = 0 THEN {0} ELSE {Len(op[t]) - 1})
                  \cup (IF Len(op[t]) = MaxDepth THEN {0} ELSE {}) :
       op' = [op EXCEPT ![t] = SubSeq(@, 1, depth)]
  /\ calls' = [calls EXCEPT ![t] = ButLast(@)]
  /\ UNCHANGED <<counter, filled>>

\* opstack_end() and opstack_end_rc(): an empty stack.
End(t) ==
  /\ Len(calls[t]) = 1
  /\ op' = [op EXCEPT ![t] = <<>>]
  /\ calls' = [calls EXCEPT ![t] = <<>>]
  /\ filled' = [filled EXCEPT ![t] = FALSE]
  /\ UNCHANGED counter

Next == \E t \in Thread : Begin(t) \/ Push(t) \/ Pop(t) \/ End(t)

Spec == Init /\ [][Next]_vars

-----------------------------------------------------------------------------
(* The context of an operation (opstack_curr(), opstack_caller() and       *)
(* opstack_head()) is that of the calls the thread is in, call for call,   *)
(* until the operation has filled its stack.  From then on pushes are lost *)
(* and pops are not, but the context still names only calls that have not  *)
(* returned, by the id that OPCALL_INIT() gave to that call alone.         *)
ContextOfCalls ==
  \A t \in Thread :
    /\ ~filled[t] => op[t] = calls[t]
    /\ \A j \in 1..Len(op[t]) : op[t][j] # 0 /\ \E k \in 1..Len(calls[t]) : calls[t][k] = op[t][j]

-----------------------------------------------------------------------------
(* Why it holds: a stack that was never full has room for the next call,   *)
(* and ids grow along the context and along the calls, so that a return    *)
(* takes the call that returns from the context, or an older one.          *)

Names(o, c, last) ==
  /\ \A j \in 1..Len(o) : o[j] # 0 /\ \E k \in 1..Len(c) : c[k] = o[j]
  /\ \A j, k \in 1..Len(o) : j < k => o[j] < o[k]
  /\ \A j, k \in 1..Len(c) : j < k /\ c[k] # 0 => c[j] < c[k]
  /\ \A j \in 1..Len(c) : c[j] <= last

OperationInv ==
  /\ counter \in Nat /\ op \in [Thread -> Seq(Nat)] /\ calls \in [Thread -> Seq(Nat)]
  /\ filled \in [Thread -> BOOLEAN]
  /\ \A t \in Thread :
       /\ ~filled[t] => op[t] = calls[t] /\ Len(op[t]) < MaxDepth
       /\ Names(op[t], calls[t], counter)
=============================================================================

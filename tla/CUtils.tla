------------------------------- MODULE CUtils -------------------------------
(***************************************************************************)
(* The utilities of c-utils.  They share no state, so that a behaviour is  *)
(* one of a single utility: cPart names it and the variables of the others *)
(* keep their initial values.                                              *)
(***************************************************************************)
EXTENDS Naturals, Sequences

\* The parameters of the parts; Null is None to all of them.
CONSTANTS
  Thread, Null,
  Point, FaultSpecs, InitSize, MaxHits,
  FnTag, TraceDepth, MaxTraced,
  OpDepth, MaxNest, MaxOpCalls,
  Starter, Fid, Obj, MotrKey, MotrPrefix, MaxWrites,
  Request, Controllers, Matches, Apis, Methods, MaxLength

VARIABLES
  cPart,
  given, table, size, freed, known, fcall, fired, aborted, cleaned,
  key, tsdb, idgen, stack, nest, untraced, added,
  counter, op, opCalls, filled,
  conf, once, inits, initThread, motrUp, my, adopted, replaced, mcall, kvIndex, objects,
  iter, writes, strays,
  phase, params, stopping, req

faultVars == <<given, table, size, freed, known, fcall, fired, aborted, cleaned>>
traceVars == <<key, tsdb, idgen, stack, nest, untraced, added>>
operationVars == <<counter, op, opCalls, filled>>
motrVars == <<conf, once, inits, initThread, motrUp, my, adopted, replaced, mcall, kvIndex,
              objects, iter, writes, strays>>
managementVars == <<phase, params, stopping, req>>

cVars == <<cPart, faultVars, traceVars, operationVars, motrVars, managementVars>>

\* First runs of a site do not overlap: fault.h says that they must not.
Faults == INSTANCE FaultPoints WITH
  call <- fcall, Specs <- FaultSpecs, Overlap <- FALSE, None <- Null

Traces == INSTANCE PerfTrace WITH
  lost <- untraced, MaxDepth <- TraceDepth, MaxCalls <- MaxTraced, None <- Null

Operations == INSTANCE OpStack WITH
  calls <- opCalls, MaxDepth <- OpDepth, MaxCalls <- MaxOpCalls

Motr == INSTANCE MotrClient WITH
  call <- mcall, up <- motrUp, index <- kvIndex, Key <- MotrKey, Prefix <- MotrPrefix,
  None <- Null

Management == INSTANCE ManagementServer

-----------------------------------------------------------------------------
(* What the parts need of their parameters.                                *)

\* Null, which stands for what is not set yet, is no point and no type.
ASSUME FaultAssumption ==
  /\ InitSize \in Nat /\ Null \notin Point
  /\ \A s \in FaultSpecs, p \in Point : s[p].type # Null

\* The tags in use lie inside the ranges of perfc_sm_tag(); a stack has room for
\* its head.
ASSUME TraceAssumption == \A tag \in FnTag : Traces!SmTag(tag) # {}
ASSUME OperationAssumption == OpDepth \in Nat \ {0}

\* The keys with a prefix lie together in the order of the keys.
ASSUME MotrAssumption ==
  /\ MotrKey \subseteq Nat /\ MotrPrefix \subseteq MotrKey /\ MotrPrefix # {}
  /\ \A j, k \in MotrPrefix, l \in MotrKey : j < l /\ l < k => l \in MotrPrefix
  /\ Thread \cap {"new", "done"} = {} /\ \A S \in SUBSET MotrKey : S # Null

-----------------------------------------------------------------------------
CInit ==
  /\ cPart \in {"faults", "traces", "operations", "motr", "management"}
  /\ Faults!Init /\ Traces!Init /\ Operations!Init /\ Motr!Init /\ Management!Init

CNext ==
  \/ /\ cPart = "faults" /\ Faults!Next
     /\ UNCHANGED <<cPart, traceVars, operationVars, motrVars, managementVars>>
  \/ /\ cPart = "traces" /\ Traces!Next
     /\ UNCHANGED <<cPart, faultVars, operationVars, motrVars, managementVars>>
  \/ /\ cPart = "operations" /\ Operations!Next
     /\ UNCHANGED <<cPart, faultVars, traceVars, motrVars, managementVars>>
  \/ /\ cPart = "motr" /\ Motr!Next
     /\ UNCHANGED <<cPart, faultVars, traceVars, operationVars, managementVars>>
  \/ /\ cPart = "management" /\ Management!Next
     /\ UNCHANGED <<cPart, faultVars, traceVars, operationVars, motrVars>>

CSpec == CInit /\ [][CNext]_cVars

-----------------------------------------------------------------------------
(* The properties of the parts.                                            *)

(* Fault points trigger as their specification says.                       *)
TriggersAsSpecified == cPart = "faults" => Faults!TriggersAsSpecified

(* A fault point has one state; no assert of fault_register() fails.       *)
OneStatePerPoint == cPart = "faults" => Faults!OneStatePerPoint

(* Trace records name the operations that wrote them, and opstack_curr()   *)
(* and its kin describe the calls the thread is in.                        *)
OperationsNamed ==
  /\ cPart = "traces" => Traces!TraceNamesOperation
  /\ cPart = "operations" => Operations!ContextOfCalls

(* m0init(): one client, entered by threads that Motr knows, through which *)
(* m0kvs_key_iter_next() and m0kvs_pattern() miss and repeat no key.       *)
MotrServes == cPart = "motr" => Motr!InitialisedOnce /\ Motr!IterationComplete

(* http_dispatch_request(): one reply per request.                         *)
AnsweredOnce == cPart = "management" => Management!AnsweredOnce
=============================================================================
